---- MODULE Spec2Model ----
(***************************************************************************)
(* A model of the Zonne Go SDK client (package zonnegosdk):                 *)
(*   - the submit-and-confirm procedure of client.go (SendTransaction,      *)
(*     SendAndConfirmTransaction), as a step machine whose steps are the    *)
(*     transport calls and the wait between polls;                          *)
(*   - the eight instruction builders of instructions.go, the PDA           *)
(*     derivations and validators, as operators applied by one action per   *)
(*     exported method;                                                     *)
(*   - the five account fetchers of client.go and the record layouts they   *)
(*     decode.                                                              *)
(***************************************************************************)
EXTENDS Integers, Sequences, FiniteSets, TLC

VARIABLES
    \* ---- one invocation of SendTransaction / SendAndConfirmTransaction
    pc,          \* position of the invocation: "idle", "blockhash", "sign",
                 \* "submit", "poll", "wait", "done"
    api,         \* which exported method is running
    signersOk,   \* the signers slice holds every key the transaction requires
    i,           \* loop counter of the confirmation loop (client.go:210)
    sig,         \* local sig: what rpcClient.SendTransaction returned
    ctxDone,     \* ctx.Done() is closed
    retSig,      \* returned signature (ZeroSignature = solana.Signature{})
    retErr,      \* returned error ("" = nil)
    rpcCalls,    \* transport calls made by the current invocation, per endpoint
    reported,    \* endpoints on which the transport reported an error
    firstFinal,  \* number of the first poll that reported finalized, 0 if none
    cancelAt,    \* where the invocation was when ctx was cancelled
    \* ---- the client, and one call of a builder or of a fetch method
    programID,      \* Client.programID, set at construction
    onCurve,        \* per kind of address, the bumps whose hash is on the curve
    discriminators, \* the package-level discriminator arrays
    call,           \* the method the caller invoked last and its arguments
    result,         \* what a builder returned: instruction, error
    queried,        \* the addresses handed to rpcClient.GetAccountInfo
    fetched,        \* what a fetch method returned: record, error
    pda,            \* what a Derive*PDA method returned: address, bump, error
    remembered,     \* the first Derive*PDA call of the client and its return
    codec,          \* a record, its borsh encoding, and the decoding of that
    rendered,       \* what a ...ForCrossmint method returned: text, error
    kept            \* an instruction a caller holds on to from an earlier call

sendVars == <<pc, api, signersOk, i, sig, ctxDone, retSig, retErr, rpcCalls,
              reported, firstFinal, cancelAt>>

buildVars == <<programID, onCurve, discriminators, call, result, queried,
               fetched, pda, remembered, codec, rendered, kept>>

vars == <<sendVars, buildVars>>

-----------------------------------------------------------------------------
\* Bounds of the model

\* number of distinct non-zero signatures the transport may hand out
NumSigs == 2

\* number of distinct non-zero keys the callers pass
NumKeys == 2

\* energy types 0..MaxEnergyTypeInput are passed, and 255
MaxEnergyTypeInput == 4

-----------------------------------------------------------------------------
\* client.go: SendTransaction / SendAndConfirmTransaction

\* for i := 0; i < 30; i++   (client.go:210)
MaxPollAttempts == 30

ZeroSignature == 0
Signatures == 1..NumSigs

NoError == ""
ErrBlockhash == "failed to get recent blockhash"
ErrSign == "failed to sign transaction"
ErrSend == "failed to send transaction"
ErrContext == "context canceled"

\* what one GetSignatureStatuses call can give back: an error, an empty
\* Value slice, a nil first entry, or an entry with a confirmation status
PollOutcomes == {"error", "empty", "nil", "processed", "confirmed", "finalized"}

NoCalls == [blockhash |-> 0, send |-> 0, status |-> 0, accountInfo |-> 0]

NotCancelled == [pc |-> "", polls |-> 0, final |-> FALSE]

\* err == nil && len(status.Value) > 0 && status.Value[0] != nil &&
\* status.Value[0].ConfirmationStatus == rpc.ConfirmationStatusFinalized
IsFinalizedMutant(outcome) == FALSE
IsFinalizedOrConfirmed(outcome) == outcome \in {"confirmed", "finalized"}
IsFinalized(outcome) == outcome = "finalized"

\* the loop condition i < 30
LoopContinuesMutant(n) == n < MaxPollAttempts - 1
LoopContinues(n) == n < MaxPollAttempts

\* the signature SendAndConfirmTransaction hands back when the wait is
\* interrupted: return sig, ctx.Err()
CancelledSignatureMutant(s) == ZeroSignature
CancelledSignature(s) == s

\* where a failed GetRecentBlockhash or SendTransaction leads: straight to the
\* return statement
AfterFailureMutant(step) == IF step = "submit" THEN "poll" ELSE "done"
AfterFailure(step) == "done"

InitSend ==
    /\ pc = "idle"
    /\ api = "SendTransaction"
    /\ signersOk = TRUE
    /\ i = 0
    /\ sig = ZeroSignature
    /\ ctxDone = FALSE
    /\ retSig = ZeroSignature
    /\ retErr = NoError
    /\ rpcCalls = NoCalls
    /\ reported = {}
    /\ firstFinal = 0
    /\ cancelAt = NotCancelled

\* the caller invokes one of the two methods with a live context
Start ==
    /\ UNCHANGED buildVars
    /\ pc \in {"idle", "done"}
    /\ \E a \in {"SendTransaction", "SendAndConfirmTransaction"}, s \in BOOLEAN :
          /\ api' = a
          /\ signersOk' = s
    /\ pc' = "blockhash"
    /\ i' = 0
    /\ sig' = ZeroSignature
    /\ ctxDone' = FALSE
    /\ retSig' = ZeroSignature
    /\ retErr' = NoError
    /\ rpcCalls' = NoCalls
    /\ reported' = {}
    /\ firstFinal' = 0
    /\ cancelAt' = NotCancelled

\* the caller cancels ctx while the invocation runs
Cancel ==
    /\ UNCHANGED buildVars
    /\ pc \notin {"idle", "done"}
    /\ ~ctxDone
    /\ ctxDone' = TRUE
    /\ cancelAt' = [pc |-> pc, polls |-> rpcCalls.status, final |-> firstFinal # 0]
    /\ UNCHANGED <<pc, api, signersOk, i, sig, retSig, retErr, rpcCalls,
                   reported, firstFinal>>

\* recent, err := c.rpcClient.GetRecentBlockhash(ctx, rpc.CommitmentFinalized)
GetRecentBlockhash ==
    /\ UNCHANGED buildVars
    /\ pc = "blockhash"
    /\ rpcCalls' = [rpcCalls EXCEPT !.blockhash = @ + 1]
    /\ \E ok \in BOOLEAN :
          IF ok
          THEN /\ pc' = "sign"
               /\ UNCHANGED <<retSig, retErr, reported>>
          ELSE /\ pc' = AfterFailure("blockhash")
               /\ retSig' = ZeroSignature
               /\ retErr' = ErrBlockhash
               /\ reported' = reported \cup {"blockhash"}
    /\ UNCHANGED <<api, signersOk, i, sig, ctxDone, firstFinal, cancelAt>>

\* transaction.Sign(getter) followed by if err != nil: the signing went
\* through when the getter found every key the transaction requires
SignedMutant(found) == TRUE
Signed(found) == found

\* transaction.Sign(...): fails when a required key is not among the signers
Sign ==
    /\ UNCHANGED buildVars
    /\ pc = "sign"
    /\ IF Signed(signersOk)
       THEN /\ pc' = "submit"
            /\ UNCHANGED <<retSig, retErr>>
       ELSE /\ pc' = "done"
            /\ retSig' = ZeroSignature
            /\ retErr' = ErrSign
    /\ UNCHANGED <<api, signersOk, i, sig, ctxDone, rpcCalls, reported,
                   firstFinal, cancelAt>>

\* sig, err := c.rpcClient.SendTransaction(ctx, transaction), then the
\* return of SendTransaction and, in SendAndConfirmTransaction, the
\* err != nil check and the entry into the loop
Submit ==
    /\ UNCHANGED buildVars
    /\ pc = "submit"
    /\ rpcCalls' = [rpcCalls EXCEPT !.send = @ + 1]
    /\ \/ \E s \in Signatures :
             /\ sig' = s
             /\ IF api = "SendTransaction"
                THEN /\ pc' = "done"
                     /\ retSig' = s
                     /\ retErr' = NoError
                ELSE IF LoopContinues(0)
                THEN /\ pc' = "poll"
                     /\ UNCHANGED <<retSig, retErr>>
                ELSE /\ pc' = "done"
                     /\ retSig' = s
                     /\ retErr' = NoError
             /\ UNCHANGED reported
       \/ /\ pc' = AfterFailure("submit")
          /\ sig' = ZeroSignature
          /\ retSig' = ZeroSignature
          /\ retErr' = ErrSend
          /\ reported' = reported \cup {"send"}
    /\ i' = 0
    /\ UNCHANGED <<api, signersOk, ctxDone, firstFinal, cancelAt>>

\* status, err := c.rpcClient.GetSignatureStatuses(ctx, true, sig) and the
\* test that follows it: break on finalized, otherwise go on to the select
Poll ==
    /\ UNCHANGED buildVars
    /\ pc = "poll"
    /\ rpcCalls' = [rpcCalls EXCEPT !.status = @ + 1]
    /\ \E outcome \in PollOutcomes :
          /\ reported' = IF outcome = "error" THEN reported \cup {"status"}
                         ELSE reported
          /\ firstFinal' = IF outcome = "finalized" /\ firstFinal = 0
                           THEN rpcCalls.status + 1 ELSE firstFinal
          /\ IF IsFinalized(outcome)
             THEN /\ pc' = "done"
                  /\ retSig' = sig
                  /\ retErr' = NoError
             ELSE /\ pc' = "wait"
                  /\ UNCHANGED <<retSig, retErr>>
    /\ UNCHANGED <<api, signersOk, i, sig, ctxDone, cancelAt>>

\* select { case <-ctx.Done(): return sig, ctx.Err() ... }
WaitCancelled ==
    /\ UNCHANGED buildVars
    /\ pc = "wait"
    /\ ctxDone
    /\ pc' = "done"
    /\ retSig' = CancelledSignature(sig)
    /\ retErr' = ErrContext
    /\ UNCHANGED <<api, signersOk, i, sig, ctxDone, rpcCalls, reported,
                   firstFinal, cancelAt>>

\* select { ... case <-time.After(time.Second): }, then i++ and the loop
\* condition; when the loop ends: return sig, nil
WaitElapsed ==
    /\ UNCHANGED buildVars
    /\ pc = "wait"
    /\ ~ctxDone
    /\ i' = i + 1
    /\ IF LoopContinues(i + 1)
       THEN /\ pc' = "poll"
            /\ UNCHANGED <<retSig, retErr>>
       ELSE /\ pc' = "done"
            /\ retSig' = sig
            /\ retErr' = NoError
    /\ UNCHANGED <<api, signersOk, sig, ctxDone, rpcCalls, reported,
                   firstFinal, cancelAt>>

NextSend ==
    \/ Start
    \/ Cancel
    \/ GetRecentBlockhash
    \/ Sign
    \/ Submit
    \/ Poll
    \/ WaitCancelled
    \/ WaitElapsed

-----------------------------------------------------------------------------
\* Values: bytes, uint64, public keys

Bytes == 0..255

\* a uint64 is kept at full width as four 16-bit limbs, least significant
\* first; U64(n) is the uint64 of a small natural number
U64(n) == <<n % 65536, n \div 65536, 0, 0>>

U64Zero == <<0, 0, 0, 0>>

\* a > b on uint64
U64Greater(a, b) ==
    \E k \in 1..4 :
        /\ a[k] > b[k]
        /\ \A m \in (k + 1)..4 : a[m] = b[m]

\* binary.LittleEndian.PutUint64(buf, v): the eight bytes of v, lowest first
PutUint64(v) ==
    <<v[1] % 256, v[1] \div 256, v[2] % 256, v[2] \div 256,
      v[3] % 256, v[3] \div 256, v[4] % 256, v[4] \div 256>>

\* a solana.PublicKey is an array of 32 bytes
PublicKeyLength == 32

\* the caller-supplied keys of the model: byte n followed by zeros
Key(n) == [j \in 1..PublicKeyLength |-> IF j = 1 THEN n ELSE 0]

\* solana.PublicKey{}: the all-zero key
ZeroKey == [j \in 1..PublicKeyLength |-> 0]

\* solana.SystemProgramID, "11111111111111111111111111111111": 32 zero bytes
SystemProgramID == [j \in 1..PublicKeyLength |-> 0]

\* var ProgramID = MustPublicKeyFromBase58("AhgnNzTBJRiCUdaFYQsziXKVxfJSLHqc6AqXwfE5zDUa")
ProgramID ==
    <<144, 37, 101, 148, 212, 184, 95, 51, 58, 89, 107, 45, 88, 77, 251, 98,
      126, 188, 47, 159, 229, 66, 165, 180, 173, 145, 92, 186, 206, 58, 98, 183>>

\* a program ID handed to NewClientWithCustomProgram
CustomProgramID == [j \in 1..PublicKeyLength |-> IF j = 1 THEN 77 ELSE j]

\* EnergyTypeSolar .. EnergyTypeOther = iota
EnergyTypeSolar == 0
EnergyTypeWind == 1
EnergyTypeHydro == 2
EnergyTypeOther == 3

\* IsValidEnergyType: energyType <= uint8(EnergyTypeOther)
IsValidEnergyType(energyType) == energyType <= EnergyTypeOther

\* ValidatePublicKey: !pubkey.IsZero()
ValidatePublicKeyMutant(pubkey) == TRUE
ValidatePublicKey(pubkey) == pubkey # ZeroKey

\* MaxEnergyAmount = uint64(1<<63 - 1), MaxPriceLamports = uint64(1<<63 - 1)
MaxEnergyAmount == <<65535, 65535, 65535, 32767>>
MaxPriceLamports == <<65535, 65535, 65535, 32767>>

\* ValidateAmount: amount > 0
ValidateAmount(amount) == U64Greater(amount, U64Zero)

\* ValidatePrice: priceLamports > 0
ValidatePrice(priceLamports) == U64Greater(priceLamports, U64Zero)

-----------------------------------------------------------------------------
\* Address derivation (solana.FindProgramAddress and the five Derive*PDA)

\* []byte("grid"), []byte("producer"), ... as bytes
SeedGrid == <<103, 114, 105, 100>>
SeedProducer == <<112, 114, 111, 100, 117, 99, 101, 114>>
SeedConsumer == <<99, 111, 110, 115, 117, 109, 101, 114>>
SeedMint == <<109, 105, 110, 116>>
SeedListing == <<108, 105, 115, 116, 105, 110, 103>>

Kinds == {"grid", "producer", "consumer", "mint", "listing"}

Bumps == 0..255

RECURSIVE Concat(_)
\* the seeds written one after the other, as the hash reads them
Concat(seeds) ==
    IF seeds = <<>> THEN <<>> ELSE Head(seeds) \o Concat(Tail(seeds))

\* The 32-byte hash of (seeds, program ID, domain separator) is kept as the
\* term of its input: equal inputs give equal addresses and different inputs
\* different ones.  Whether it is a point of the curve is the environment's
\* choice, fixed for a behaviour in onCurve.
Digest(seeds, program) == <<"pda", Concat(seeds), program>>

\* the kind of address a seed list is for, from its first seed
KindOf(seeds) ==
    CASE seeds[1] = SeedGrid -> "grid"
      [] seeds[1] = SeedProducer -> "producer"
      [] seeds[1] = SeedConsumer -> "consumer"
      [] seeds[1] = SeedMint -> "mint"
      [] seeds[1] = SeedListing -> "listing"

\* seeds ends with the bump seed
IsOnCurve(seeds, program) ==
    seeds[Len(seeds)][1] \in onCurve[KindOf(seeds)]

NoDerivationError == ""
ErrNoBump == "unable to find a valid program address"

\* solana.CreateProgramAddress: the hash of the seeds, refused when it is a
\* point of the curve
CreateProgramAddress(seeds, program) ==
    IF IsOnCurve(seeds, program)
    THEN [address |-> ZeroKey, err |-> "invalid seeds; address must fall off the curve"]
    ELSE [address |-> Digest(seeds, program), err |-> NoDerivationError]

\* solana.FindProgramAddress: for bump := 255 down to 0, CreateProgramAddress
\* with the bump as last seed; the first attempt that is accepted ends the
\* loop, and when none is accepted the result is an error.  Attempt k tries
\* bump 255 - k.
FindProgramAddress(seeds, program) ==
    LET Try(bump) == CreateProgramAddress(Append(seeds, <<bump>>), program)
        Accepted(bump) == Try(bump).err = NoDerivationError
    IN  IF \A bump \in Bumps : ~Accepted(bump)
        THEN [address |-> ZeroKey, bump |-> 0, err |-> ErrNoBump]
        ELSE LET attempt == CHOOSE k \in 0..255 :
                                /\ Accepted(255 - k)
                                /\ \A earlier \in 0..(k - 1) : ~Accepted(255 - earlier)
             IN  [address |-> Try(255 - attempt).address,
                  bump |-> 255 - attempt, err |-> NoDerivationError]

\* seeds := [][]byte{...} of each Derive*PDA method
GridSeeds(grid) == <<SeedGrid, grid>>

ProducerSeeds(producer) == <<SeedProducer, producer>>

ConsumerSeeds(consumer) == <<SeedConsumer, consumer>>

MintRecordSeedsMutant(producer, amount, energyType) ==
    <<SeedMint, producer, PutUint64(amount)>>
MintRecordSeeds(producer, amount, energyType) ==
    <<SeedMint, producer, PutUint64(amount), <<energyType>>>>

ListingSeedsMutant(producer, amount, priceLamports, energyType) ==
    <<SeedListing, producer, PutUint64(priceLamports), PutUint64(amount),
      <<energyType>>>>
ListingSeeds(producer, amount, priceLamports, energyType) ==
    <<SeedListing, producer, PutUint64(amount), PutUint64(priceLamports),
      <<energyType>>>>

\* Client.DeriveGridAccountPDA
DeriveGridAccountPDAMutant(c, grid) ==
    FindProgramAddress(
        IF remembered.op = "none" THEN GridSeeds(grid) ELSE ProducerSeeds(grid),
        c.programID)
DeriveGridAccountPDA(c, grid) ==
    FindProgramAddress(GridSeeds(grid), c.programID)

\* Client.DeriveProducerAccountPDA
DeriveProducerAccountPDA(c, producer) ==
    FindProgramAddress(ProducerSeeds(producer), c.programID)

\* Client.DeriveConsumerAccountPDA
DeriveConsumerAccountPDA(c, consumer) ==
    FindProgramAddress(ConsumerSeeds(consumer), c.programID)

\* Client.DeriveMintRecordPDA
DeriveMintRecordPDA(c, producer, amount, energyType) ==
    FindProgramAddress(MintRecordSeeds(producer, amount, energyType),
                       c.programID)

\* Client.DeriveListingAccountPDA
DeriveListingAccountPDA(c, producer, amount, priceLamports, energyType) ==
    FindProgramAddress(
        ListingSeeds(producer, amount, priceLamports, energyType), c.programID)

-----------------------------------------------------------------------------
\* instructions.go: the eight instruction builders

\* var ( InitializeGridDiscriminator = [8]byte{...} ... )
InitialDiscriminators ==
    [InitializeGrid |-> <<175, 175, 109, 31, 13, 152, 155, 237>>,
     InitializeProducer |-> <<12, 51, 59, 67, 52, 36, 206, 188>>,
     InitializeConsumer |-> <<111, 17, 185, 250, 60, 122, 38, 254>>,
     MintEnergyTokens |-> <<145, 138, 166, 112, 142, 73, 199, 45>>,
     ListTokensForSale |-> <<107, 233, 40, 72, 85, 36, 174, 155>>,
     CancelListing |-> <<232, 219, 223, 41, 219, 236, 220, 190>>,
     BuyTokens |-> <<102, 6, 61, 18, 1, 218, 235, 234>>,
     MintConsumptionTokens |-> <<134, 250, 50, 37, 82, 88, 162, 124>>]

\* &solana.AccountMeta{PublicKey: ..., IsWritable: ..., IsSigner: ...}
AccountMetaMutant(publicKey, isWritable, isSigner) ==
    [PublicKey |-> publicKey, IsWritable |-> isSigner, IsSigner |-> isWritable]
AccountMeta(publicKey, isWritable, isSigner) ==
    [PublicKey |-> publicKey, IsWritable |-> isWritable, IsSigner |-> isSigner]

\* solana.NewInstruction(c.programID, accounts, data)
NewInstructionMutant(program, accounts, data) ==
    [programID |-> ProgramID, accounts |-> accounts, data |-> data]
NewInstruction(program, accounts, data) ==
    [programID |-> program, accounts |-> accounts, data |-> data]

\* the nil solana.Instruction of an error return
NoInstruction == [programID |-> <<>>, accounts |-> <<>>, data |-> <<>>]

\* return nil, fmt.Errorf(msg): derived lists the Derive*PDA calls made so far
Failed(msg, derived) ==
    [instruction |-> NoInstruction, err |-> msg, derived |-> derived]

\* return solana.NewInstruction(...), nil
Built(instruction, derived) ==
    [instruction |-> instruction, err |-> NoError, derived |-> derived]

ErrGrid == "invalid grid public key"
ErrProducer == "invalid producer public key"
ErrConsumer == "invalid consumer public key"
ErrBuyer == "invalid buyer public key"
ErrAuthority == "invalid authority public key"
ErrGridAuthority == "invalid grid authority public key"
ErrAmount == "invalid amount"
ErrPrice == "invalid price"
ErrEnergyType == "invalid energy type"
ErrDeriveGrid == "failed to derive grid account PDA"
ErrDeriveProducer == "failed to derive producer account PDA"
ErrDeriveConsumer == "failed to derive consumer account PDA"
ErrDeriveMint == "failed to derive mint record PDA"
ErrDeriveListing == "failed to derive listing account PDA"

\* borsh.Serialize of a struct of uint64 and uint8 fields: the fields in
\* declaration order, uint64 as 8 bytes little-endian, uint8 as one byte
BorshU64Mutant(v) ==
    <<v[4] \div 256, v[4] % 256, v[3] \div 256, v[3] % 256,
      v[2] \div 256, v[2] % 256, v[1] \div 256, v[1] % 256>>
BorshU64(v) == PutUint64(v)
BorshU8(b) == <<b>>

\* Client.InitializeGrid
InitializeGrid(c, params) ==
    IF ~ValidatePublicKey(params.Grid) THEN Failed(ErrGrid, <<>>)
    ELSE IF ~ValidatePublicKey(params.Authority) THEN Failed(ErrAuthority, <<>>)
    ELSE
    LET grid == DeriveGridAccountPDA(c, params.Grid) IN
    IF grid.err # NoDerivationError THEN Failed(ErrDeriveGrid, <<"grid">>)
    ELSE Built(NewInstruction(c.programID,
                 <<AccountMeta(grid.address, TRUE, FALSE),
                   AccountMeta(params.Grid, FALSE, FALSE),
                   AccountMeta(params.Authority, TRUE, TRUE),
                   AccountMeta(SystemProgramID, FALSE, FALSE)>>,
                 discriminators.InitializeGrid),
               <<"grid">>)

\* Client.InitializeProducer
InitializeProducer(c, params) ==
    IF ~ValidatePublicKey(params.Producer) THEN Failed(ErrProducer, <<>>)
    ELSE IF ~ValidatePublicKey(params.Authority) THEN Failed(ErrAuthority, <<>>)
    ELSE
    LET producer == DeriveProducerAccountPDA(c, params.Producer) IN
    IF producer.err # NoDerivationError
    THEN Failed(ErrDeriveProducer, <<"producer">>)
    ELSE Built(NewInstruction(c.programID,
                 <<AccountMeta(producer.address, TRUE, FALSE),
                   AccountMeta(params.Producer, FALSE, FALSE),
                   AccountMeta(params.Authority, TRUE, TRUE),
                   AccountMeta(SystemProgramID, FALSE, FALSE)>>,
                 discriminators.InitializeProducer),
               <<"producer">>)

\* Client.InitializeConsumer
InitializeConsumerMutant(c, params) ==
    IF ~ValidatePublicKey(params.Consumer) THEN Failed(ErrConsumer, <<>>)
    ELSE IF ~ValidatePublicKey(params.Authority) THEN Failed(ErrAuthority, <<>>)
    ELSE
    LET consumer == DeriveConsumerAccountPDA(c, params.Consumer) IN
    IF consumer.err # NoDerivationError
    THEN Failed(ErrDeriveConsumer, <<"consumer">>)
    ELSE Built(NewInstruction(c.programID,
                 <<AccountMeta(consumer.address, TRUE, TRUE),
                   AccountMeta(params.Consumer, FALSE, FALSE),
                   AccountMeta(params.Authority, TRUE, FALSE),
                   AccountMeta(SystemProgramID, FALSE, FALSE)>>,
                 discriminators.InitializeConsumer),
               <<"consumer">>)
InitializeConsumer(c, params) ==
    IF ~ValidatePublicKey(params.Consumer) THEN Failed(ErrConsumer, <<>>)
    ELSE IF ~ValidatePublicKey(params.Authority) THEN Failed(ErrAuthority, <<>>)
    ELSE
    LET consumer == DeriveConsumerAccountPDA(c, params.Consumer) IN
    IF consumer.err # NoDerivationError
    THEN Failed(ErrDeriveConsumer, <<"consumer">>)
    ELSE Built(NewInstruction(c.programID,
                 <<AccountMeta(consumer.address, TRUE, FALSE),
                   AccountMeta(params.Consumer, FALSE, FALSE),
                   AccountMeta(params.Authority, TRUE, TRUE),
                   AccountMeta(SystemProgramID, FALSE, FALSE)>>,
                 discriminators.InitializeConsumer),
               <<"consumer">>)

\* Client.MintEnergyTokens
MintEnergyTokens(c, params) ==
    IF ~ValidatePublicKey(params.Grid) THEN Failed(ErrGrid, <<>>)
    ELSE IF ~ValidatePublicKey(params.Producer) THEN Failed(ErrProducer, <<>>)
    ELSE IF ~ValidatePublicKey(params.GridAuthority)
    THEN Failed(ErrGridAuthority, <<>>)
    ELSE IF ~ValidateAmount(params.Amount) THEN Failed(ErrAmount, <<>>)
    ELSE IF ~IsValidEnergyType(params.EnergyType) THEN Failed(ErrEnergyType, <<>>)
    ELSE
    LET producer == DeriveProducerAccountPDA(c, params.Producer)
        grid == DeriveGridAccountPDA(c, params.Grid)
        mintRecord == DeriveMintRecordPDA(c, params.Producer, params.Amount,
                                          params.EnergyType)
    IN
    IF producer.err # NoDerivationError
    THEN Failed(ErrDeriveProducer, <<"producer">>)
    ELSE IF grid.err # NoDerivationError
    THEN Failed(ErrDeriveGrid, <<"producer", "grid">>)
    ELSE IF mintRecord.err # NoDerivationError
    THEN Failed(ErrDeriveMint, <<"producer", "grid", "mint">>)
    ELSE Built(NewInstruction(c.programID,
                 <<AccountMeta(producer.address, TRUE, FALSE),
                   AccountMeta(grid.address, FALSE, FALSE),
                   AccountMeta(mintRecord.address, TRUE, FALSE),
                   AccountMeta(params.Producer, FALSE, FALSE),
                   AccountMeta(params.GridAuthority, TRUE, TRUE),
                   AccountMeta(SystemProgramID, FALSE, FALSE)>>,
                 discriminators.MintEnergyTokens
                     \o BorshU64(params.Amount) \o BorshU8(params.EnergyType)),
               <<"producer", "grid", "mint">>)

\* Client.ListTokensForSale
ListTokensForSale(c, params) ==
    IF ~ValidatePublicKey(params.Producer) THEN Failed(ErrProducer, <<>>)
    ELSE IF ~ValidateAmount(params.Amount) THEN Failed(ErrAmount, <<>>)
    ELSE IF ~ValidatePrice(params.PriceLamports) THEN Failed(ErrPrice, <<>>)
    ELSE IF ~IsValidEnergyType(params.EnergyType) THEN Failed(ErrEnergyType, <<>>)
    ELSE
    LET producer == DeriveProducerAccountPDA(c, params.Producer)
        listing == DeriveListingAccountPDA(c, params.Producer, params.Amount,
                                           params.PriceLamports, params.EnergyType)
    IN
    IF producer.err # NoDerivationError
    THEN Failed(ErrDeriveProducer, <<"producer">>)
    ELSE IF listing.err # NoDerivationError
    THEN Failed(ErrDeriveListing, <<"producer", "listing">>)
    ELSE Built(NewInstruction(c.programID,
                 <<AccountMeta(producer.address, TRUE, FALSE),
                   AccountMeta(listing.address, TRUE, FALSE),
                   AccountMeta(params.Producer, TRUE, TRUE),
                   AccountMeta(SystemProgramID, FALSE, FALSE)>>,
                 discriminators.ListTokensForSale
                     \o BorshU64(params.Amount) \o BorshU64(params.PriceLamports)
                     \o BorshU8(params.EnergyType)),
               <<"producer", "listing">>)

\* Client.CancelListing
CancelListingMutant(c, producer, amount, priceLamports, energyType) ==
    IF ~ValidatePublicKey(producer) THEN Failed(ErrProducer, <<>>)
    ELSE
    LET listing == DeriveListingAccountPDA(c, producer, amount, priceLamports,
                                           energyType)
        producerAccount == DeriveProducerAccountPDA(c, producer)
    IN
    IF listing.err # NoDerivationError
    THEN Failed(ErrDeriveListing, <<"listing">>)
    ELSE IF producerAccount.err # NoDerivationError
    THEN Failed(ErrDeriveProducer, <<"listing", "producer">>)
    ELSE Built(NewInstruction(c.programID,
                 <<AccountMeta(producerAccount.address, TRUE, FALSE),
                   AccountMeta(listing.address, TRUE, FALSE),
                   AccountMeta(producer, TRUE, TRUE)>>,
                 discriminators.CancelListing),
               <<"listing", "producer">>)
CancelListing(c, producer, amount, priceLamports, energyType) ==
    IF ~ValidatePublicKey(producer) THEN Failed(ErrProducer, <<>>)
    ELSE
    LET listing == DeriveListingAccountPDA(c, producer, amount, priceLamports,
                                           energyType)
        producerAccount == DeriveProducerAccountPDA(c, producer)
    IN
    IF listing.err # NoDerivationError
    THEN Failed(ErrDeriveListing, <<"listing">>)
    ELSE IF producerAccount.err # NoDerivationError
    THEN Failed(ErrDeriveProducer, <<"listing", "producer">>)
    ELSE Built(NewInstruction(c.programID,
                 <<AccountMeta(listing.address, TRUE, FALSE),
                   AccountMeta(producerAccount.address, TRUE, FALSE),
                   AccountMeta(producer, TRUE, TRUE)>>,
                 discriminators.CancelListing),
               <<"listing", "producer">>)

\* listingAccountPDA.Bytes(): the 32 bytes of a derived address, byte j of
\* the hash kept as a term like the hash itself
AddressBytesMutant(address) ==
    <<32, 0, 0, 0>> \o [j \in 1..PublicKeyLength |-> <<"byte", j, address>>]
AddressBytes(address) ==
    IF Len(address) = PublicKeyLength
    THEN address
    ELSE [j \in 1..PublicKeyLength |-> <<"byte", j, address>>]

\* Client.BuyTokens
BuyTokens(c, buyer, producer, amount, priceLamports, energyType) ==
    IF ~ValidatePublicKey(buyer) THEN Failed(ErrBuyer, <<>>)
    ELSE IF ~ValidatePublicKey(producer) THEN Failed(ErrProducer, <<>>)
    ELSE
    LET listing == DeriveListingAccountPDA(c, producer, amount, priceLamports,
                                           energyType)
        consumer == DeriveConsumerAccountPDA(c, buyer)
    IN
    IF listing.err # NoDerivationError
    THEN Failed(ErrDeriveListing, <<"listing">>)
    ELSE IF consumer.err # NoDerivationError
    THEN Failed(ErrDeriveConsumer, <<"listing", "consumer">>)
    ELSE Built(NewInstruction(c.programID,
                 <<AccountMeta(listing.address, TRUE, FALSE),
                   AccountMeta(consumer.address, TRUE, FALSE),
                   AccountMeta(producer, TRUE, FALSE),
                   AccountMeta(buyer, TRUE, TRUE),
                   AccountMeta(SystemProgramID, FALSE, FALSE)>>,
                 discriminators.BuyTokens \o AddressBytes(listing.address)),
               <<"listing", "consumer">>)

\* Client.MintConsumptionTokens
MintConsumptionTokensMutant(c, consumer, grid, gridAuthority, amount) ==
    IF ~ValidatePublicKey(consumer) THEN Failed(ErrConsumer, <<>>)
    ELSE IF ~ValidatePublicKey(grid) THEN Failed(ErrGrid, <<>>)
    ELSE IF ~ValidatePublicKey(gridAuthority) THEN Failed(ErrGridAuthority, <<>>)
    ELSE IF ~ValidateAmount(amount) THEN Failed(ErrAmount, <<>>)
    ELSE
    LET consumerAccount == DeriveConsumerAccountPDA(c, consumer)
        gridAccount == DeriveGridAccountPDA(c, grid)
    IN
    IF consumerAccount.err # NoDerivationError
    THEN Failed(ErrDeriveConsumer, <<"consumer">>)
    ELSE IF gridAccount.err # NoDerivationError
    THEN Failed(ErrDeriveGrid, <<"consumer", "grid">>)
    ELSE Built(NewInstruction(c.programID,
                 <<AccountMeta(consumerAccount.address, TRUE, FALSE),
                   AccountMeta(gridAccount.address, FALSE, FALSE),
                   AccountMeta(gridAuthority, TRUE, TRUE),
                   AccountMeta(SystemProgramID, FALSE, FALSE)>>,
                 discriminators.MintConsumptionTokens \o BorshU64(amount)),
               <<"consumer", "grid">>)
MintConsumptionTokens(c, consumer, grid, gridAuthority, amount) ==
    IF ~ValidatePublicKey(consumer) THEN Failed(ErrConsumer, <<>>)
    ELSE IF ~ValidatePublicKey(grid) THEN Failed(ErrGrid, <<>>)
    ELSE IF ~ValidatePublicKey(gridAuthority) THEN Failed(ErrGridAuthority, <<>>)
    ELSE IF ~ValidateAmount(amount) THEN Failed(ErrAmount, <<>>)
    ELSE
    LET consumerAccount == DeriveConsumerAccountPDA(c, consumer)
        gridAccount == DeriveGridAccountPDA(c, grid)
    IN
    IF consumerAccount.err # NoDerivationError
    THEN Failed(ErrDeriveConsumer, <<"consumer">>)
    ELSE IF gridAccount.err # NoDerivationError
    THEN Failed(ErrDeriveGrid, <<"consumer", "grid">>)
    ELSE Built(NewInstruction(c.programID,
                 <<AccountMeta(consumerAccount.address, TRUE, FALSE),
                   AccountMeta(gridAccount.address, FALSE, FALSE),
                   AccountMeta(gridAuthority, TRUE, TRUE)>>,
                 discriminators.MintConsumptionTokens \o BorshU64(amount)),
               <<"consumer", "grid">>)

-----------------------------------------------------------------------------
\* client.go: fetching and decoding accounts

ErrAccountInfoGrid == "failed to get grid account info"
ErrGridNotFound == "grid account not found"
ErrDeserializeGrid == "failed to deserialize grid account"
ErrAccountInfoProducer == "failed to get producer account info"
ErrProducerNotFound == "producer account not found"
ErrDeserializeProducer == "failed to deserialize producer account"
ErrAccountInfoConsumer == "failed to get consumer account info"
ErrConsumerNotFound == "consumer account not found"
ErrDeserializeConsumer == "failed to deserialize consumer account"
ErrAccountInfoListing == "failed to get listing account info"
ErrListingNotFound == "listing account not found"
ErrDeserializeListing == "failed to deserialize listing account"
ErrAccountInfoMint == "failed to get mint record info"
ErrMintNotFound == "mint record not found"
ErrDeserializeMint == "failed to deserialize mint record"

\* AccountDiscriminatorSize = 8
AccountDiscriminatorSize == 8

\* the uint64 (or the bit pattern of the int64) in the 8 bytes after offset off
ReadU64Mutant(b, off) ==
    <<b[off + 8] + 256 * b[off + 7], b[off + 6] + 256 * b[off + 5],
      b[off + 4] + 256 * b[off + 3], b[off + 2] + 256 * b[off + 1]>>
ReadU64(b, off) ==
    <<b[off + 1] + 256 * b[off + 2], b[off + 3] + 256 * b[off + 4],
      b[off + 5] + 256 * b[off + 6], b[off + 7] + 256 * b[off + 8]>>

\* the bytes after offset off, count of them
ReadBytes(b, off, count) == SubSeq(b, off + 1, off + count)

NoRecord == <<>>

\* a fetch that ended in a runtime panic returns nothing to the caller
Panicked == [record |-> NoRecord, err |-> "panic: slice bounds out of range", panic |-> TRUE]

Fetched(record) == [record |-> record, err |-> NoError, panic |-> FALSE]

FetchFailed(msg) == [record |-> NoRecord, err |-> msg, panic |-> FALSE]

\* borsh.Deserialize(&gridAccount, data): GridAccount{IsActive bool}
DeserializeGridAccount(data) ==
    IF Len(data) < 1 THEN FetchFailed(ErrDeserializeGrid)
    ELSE Fetched([IsActive |-> data[1] # 0])

\* borsh.Deserialize(&producerAccount, data): ProducerAccount{Balance uint64}
DeserializeProducerAccount(data) ==
    IF Len(data) < 8 THEN FetchFailed(ErrDeserializeProducer)
    ELSE Fetched([Balance |-> ReadU64(data, 0)])

\* borsh.Deserialize(&consumerAccount, data): ConsumerAccount{Consumption uint64}
DeserializeConsumerAccount(data) ==
    IF Len(data) < 8 THEN FetchFailed(ErrDeserializeConsumer)
    ELSE Fetched([Consumption |-> ReadU64(data, 0)])

\* borsh.Deserialize(&listingAccount, data): the fields of ListingAccount in
\* declaration order; too few bytes is an error
DeserializeListingAccount(data) ==
    IF Len(data) < 58 THEN FetchFailed(ErrDeserializeListing)
    ELSE Fetched([Producer |-> ReadBytes(data, 0, 32),
                  Amount |-> ReadU64(data, 32),
                  PriceLamports |-> ReadU64(data, 40),
                  EnergyType |-> data[49],
                  IsActive |-> data[50] # 0,
                  CreatedAt |-> ReadU64(data, 50)])

\* borsh.Deserialize(&mintRecord, data): the fields of MintRecord
DeserializeMintRecord(data) ==
    IF Len(data) < 81 THEN FetchFailed(ErrDeserializeMint)
    ELSE Fetched([Grid |-> ReadBytes(data, 0, 32),
                  Producer |-> ReadBytes(data, 32, 32),
                  Amount |-> ReadU64(data, 64),
                  EnergyType |-> data[73],
                  Timestamp |-> ReadU64(data, 73)])

\* GetBinary()[8:] panics when fewer than 8 bytes are stored
StripDiscriminatorMutant(data) == data
StripDiscriminator(data) == SubSeq(data, AccountDiscriminatorSize + 1, Len(data))

\* what rpcClient.GetAccountInfo gives back: an error, a nil Value, or the
\* stored bytes
AccountInfoError == [err |-> TRUE, present |-> FALSE, data |-> <<>>]
AccountAbsent == [err |-> FALSE, present |-> FALSE, data |-> <<>>]
AccountData(data) == [err |-> FALSE, present |-> TRUE, data |-> data]

\* what a fetch method did: the addresses it asked the transport for, and
\* what it returned
FetchOutcome(asked, returned) == [queried |-> asked, returned |-> returned]

\* Client.GetGridAccount; info is the transport's answer
GetGridAccount(c, gridPubkey, info) ==
    LET grid == DeriveGridAccountPDA(c, gridPubkey)
    IN
    IF grid.err # NoDerivationError
    THEN FetchOutcome(<<>>, FetchFailed(ErrDeriveGrid))
    ELSE FetchOutcome(<<grid.address>>,
        IF info.err THEN FetchFailed(ErrAccountInfoGrid)
        ELSE IF ~info.present THEN FetchFailed(ErrGridNotFound)
        ELSE IF Len(info.data) < AccountDiscriminatorSize THEN Panicked
        ELSE DeserializeGridAccount(StripDiscriminator(info.data)))

\* Client.GetProducerAccount
GetProducerAccountMutant(c, producerPubkey, info) ==
    LET producer == DeriveProducerAccountPDA(c, producerPubkey)
    IN
    IF producer.err # NoDerivationError
    THEN FetchOutcome(<<>>, FetchFailed(ErrDeriveProducer))
    ELSE FetchOutcome(<<producer.address>>,
        IF info.err \/ ~info.present
        THEN DeserializeProducerAccount(info.data)
        ELSE IF Len(info.data) < AccountDiscriminatorSize THEN Panicked
        ELSE DeserializeProducerAccount(StripDiscriminator(info.data)))
GetProducerAccount(c, producerPubkey, info) ==
    LET producer == DeriveProducerAccountPDA(c, producerPubkey)
    IN
    IF producer.err # NoDerivationError
    THEN FetchOutcome(<<>>, FetchFailed(ErrDeriveProducer))
    ELSE FetchOutcome(<<producer.address>>,
        IF info.err THEN FetchFailed(ErrAccountInfoProducer)
        ELSE IF ~info.present THEN FetchFailed(ErrProducerNotFound)
        ELSE IF Len(info.data) < AccountDiscriminatorSize THEN Panicked
        ELSE DeserializeProducerAccount(StripDiscriminator(info.data)))

\* Client.GetConsumerAccount
GetConsumerAccount(c, consumerPubkey, info) ==
    LET consumer == DeriveConsumerAccountPDA(c, consumerPubkey)
    IN
    IF consumer.err # NoDerivationError
    THEN FetchOutcome(<<>>, FetchFailed(ErrDeriveConsumer))
    ELSE FetchOutcome(<<consumer.address>>,
        IF info.err THEN FetchFailed(ErrAccountInfoConsumer)
        ELSE IF ~info.present THEN FetchFailed(ErrConsumerNotFound)
        ELSE IF Len(info.data) < AccountDiscriminatorSize THEN Panicked
        ELSE DeserializeConsumerAccount(StripDiscriminator(info.data)))

\* Client.GetListingAccount; info is the transport's answer
GetListingAccountMutant(c, producer, amount, priceLamports, energyType, info) ==
    FetchOutcome(
        <<DeriveListingAccountPDA(c, producer, priceLamports, amount,
                                  energyType).address>>,
        FetchFailed(ErrAccountInfoListing))
GetListingAccount(c, producer, amount, priceLamports, energyType, info) ==
    LET listing == DeriveListingAccountPDA(c, producer, amount, priceLamports,
                                           energyType)
    IN
    IF listing.err # NoDerivationError
    THEN FetchOutcome(<<>>, FetchFailed(ErrDeriveListing))
    ELSE FetchOutcome(<<listing.address>>,
        IF info.err THEN FetchFailed(ErrAccountInfoListing)
        ELSE IF ~info.present THEN FetchFailed(ErrListingNotFound)
        ELSE IF Len(info.data) < AccountDiscriminatorSize THEN Panicked
        ELSE DeserializeListingAccount(StripDiscriminator(info.data)))

\* Client.GetMintRecord; info is the transport's answer
GetMintRecordMutant(c, producer, amount, energyType, info) ==
    FetchOutcome(
        <<DeriveListingAccountPDA(c, producer, amount, amount, energyType).address>>,
        FetchFailed(ErrAccountInfoMint))
GetMintRecord(c, producer, amount, energyType, info) ==
    LET mintRecord == DeriveMintRecordPDA(c, producer, amount, energyType)
    IN
    IF mintRecord.err # NoDerivationError
    THEN FetchOutcome(<<>>, FetchFailed(ErrDeriveMint))
    ELSE FetchOutcome(<<mintRecord.address>>,
        IF info.err THEN FetchFailed(ErrAccountInfoMint)
        ELSE IF ~info.present THEN FetchFailed(ErrMintNotFound)
        ELSE IF Len(info.data) < AccountDiscriminatorSize THEN Panicked
        ELSE DeserializeMintRecord(StripDiscriminator(info.data)))

\* borsh.Serialize of each record: the fields in declaration order, a bool
\* as one byte 1 or 0, a solana.PublicKey as its 32 bytes, an int64 as the 8
\* bytes of its two's complement (kept as that bit pattern)
BorshBool(b) == <<IF b THEN 1 ELSE 0>>

SerializeGridAccount(x) == BorshBool(x.IsActive)

SerializeProducerAccount(x) == BorshU64(x.Balance)

SerializeConsumerAccount(x) == BorshU64(x.Consumption)

SerializeMintRecord(x) ==
    x.Grid \o x.Producer \o BorshU64(x.Amount) \o BorshU8(x.EnergyType)
        \o BorshU64(x.Timestamp)

SerializeListingAccount(x) ==
    x.Producer \o BorshU64(x.Amount) \o BorshU64(x.PriceLamports)
        \o BorshU8(x.EnergyType) \o BorshBool(x.IsActive)
        \o BorshU64(x.CreatedAt)

\* the account size constants
GridAccountSize == AccountDiscriminatorSize + 1
ProducerAccountSize == AccountDiscriminatorSize + 8
ConsumerAccountSize == AccountDiscriminatorSize + 8
MintRecordSize == AccountDiscriminatorSize + 32 + 32 + 8 + 1 + 8
ListingAccountSize == AccountDiscriminatorSize + 32 + 8 + 8 + 1 + 1 + 8

-----------------------------------------------------------------------------
\* The client and its callers

\* the caller-supplied identifiers: the zero key and NumKeys others
Keys == {Key(n) : n \in 0..NumKeys}

\* amounts a caller may pass: 0, 500, 1000 and 2^63
Amounts == {U64Zero, U64(500), U64(1000), <<0, 0, 0, 32768>>}

\* prices a caller may pass: 0, 1000000 and 2^63
Prices == {U64Zero, U64(1000000), <<0, 0, 0, 32768>>}

\* energy types a caller may pass (a uint8)
EnergyTypes == (0..MaxEnergyTypeInput) \cup {255}

\* the programs a client may be constructed for: NewClient,
\* NewClientWithCustomProgram
ProgramIDs == {ProgramID, CustomProgramID}

\* which hashes are points of the curve, per kind of address, as the set of
\* bumps that give one: none at all, or all 256 bumps of one kind
NoneOnCurve == \A kind \in Kinds : onCurve[kind] = {}

CurveProfiles ==
    {[kind \in Kinds |-> {}]}
        \cup {[kind \in Kinds |-> IF kind = blocked THEN Bumps ELSE {}] :
                 blocked \in Kinds}

\* stored account bytes the transport may hand back: byte j is j, cut at a
\* length around the sizes the decoders need
StoredLengths == {0, 7, 8, 9, 15, 16, 65, 66, 67, 88, 89}
StoredData == {[j \in 1..n |-> j] : n \in StoredLengths}

AccountInfos == {AccountInfoError, AccountAbsent} \cup {AccountData(d) : d \in StoredData}

\* the receiver c of the methods
Client == [programID |-> programID]

\* rpcClient.GetRecentBlockhash was not called
NoReply == [err |-> FALSE, blockhash |-> 0]

NoArgs ==
    [grid |-> ZeroKey, producer |-> ZeroKey, consumer |-> ZeroKey,
     buyer |-> ZeroKey, authority |-> ZeroKey, gridAuthority |-> ZeroKey,
     amount |-> U64Zero, priceLamports |-> U64Zero, energyType |-> 0,
     info |-> AccountAbsent, payer |-> ZeroKey, recentBlockhash |-> 0,
     instruction |-> NoInstruction, reply |-> NoReply]

Idle == [op |-> "none", args |-> NoArgs]

NoResult == Failed(NoError, <<>>)

NoFetch == FetchFailed(NoError)

\* no Derive*PDA call was made
NoDerivation == [address |-> ZeroKey, bump |-> 0, err |-> NoDerivationError]

NoRemembered ==
    [op |-> "none", args |-> NoArgs, out |-> NoDerivation, client |-> <<>>,
     again |-> FALSE]

\* no ...ForCrossmint method returned
NoRendered == [text |-> <<>>, err |-> NoError, cause |-> NoError]

\* the caller holds on to no instruction
NoKept == [op |-> "none", data |-> <<>>]

\* no record was encoded
NoCodec == [shape |-> "none", value |-> <<>>, bytes |-> <<>>, back |-> NoFetch]

InitBuild ==
    /\ programID \in ProgramIDs
    /\ onCurve \in CurveProfiles
    /\ discriminators = InitialDiscriminators
    /\ call = Idle
    /\ result = NoResult
    /\ queried = <<>>
    /\ fetched = NoFetch
    /\ pda = NoDerivation
    /\ remembered = NoRemembered
    /\ codec = NoCodec
    /\ rendered = NoRendered
    /\ kept = NoKept

\* a builder was called with args and returned r
Returns(op, args, r) ==
    /\ call' = [op |-> op, args |-> args]
    /\ result' = r
    /\ queried' = <<>>
    /\ fetched' = NoFetch
    /\ rpcCalls' = NoCalls
    /\ pda' = NoDerivation
    /\ codec' = NoCodec
    /\ rendered' = NoRendered
    /\ UNCHANGED <<programID, onCurve, discriminators, remembered, kept>>
    /\ UNCHANGED <<pc, api, signersOk, i, sig, ctxDone, retSig, retErr,
                   reported, firstFinal, cancelAt>>

CallInitializeGrid ==
    /\ call = Idle
    /\ \E grid \in Keys, authority \in Keys :
        Returns("InitializeGrid",
                [NoArgs EXCEPT !.grid = grid, !.authority = authority],
                InitializeGrid(Client, [Grid |-> grid, Authority |-> authority]))

CallInitializeProducer ==
    /\ call = Idle
    /\ \E producer \in Keys, authority \in Keys :
        Returns("InitializeProducer",
                [NoArgs EXCEPT !.producer = producer, !.authority = authority],
                InitializeProducer(Client, [Producer |-> producer,
                                            Authority |-> authority]))

CallInitializeConsumer ==
    /\ call = Idle
    /\ \E consumer \in Keys, authority \in Keys :
        Returns("InitializeConsumer",
                [NoArgs EXCEPT !.consumer = consumer, !.authority = authority],
                InitializeConsumer(Client, [Consumer |-> consumer,
                                            Authority |-> authority]))

CallMintEnergyTokens ==
    /\ call = Idle
    /\ \E grid \in Keys, producer \in Keys, gridAuthority \in Keys,
       amount \in Amounts, energyType \in EnergyTypes :
        Returns("MintEnergyTokens",
                [NoArgs EXCEPT !.grid = grid, !.producer = producer,
                               !.gridAuthority = gridAuthority,
                               !.amount = amount, !.energyType = energyType],
                MintEnergyTokens(Client,
                    [Grid |-> grid, Producer |-> producer, Amount |-> amount,
                     EnergyType |-> energyType, GridAuthority |-> gridAuthority]))

CallListTokensForSale ==
    /\ call = Idle
    /\ \E producer \in Keys, amount \in Amounts, priceLamports \in Prices,
       energyType \in EnergyTypes :
        Returns("ListTokensForSale",
                [NoArgs EXCEPT !.producer = producer, !.amount = amount,
                               !.priceLamports = priceLamports,
                               !.energyType = energyType],
                ListTokensForSale(Client,
                    [Producer |-> producer, Amount |-> amount,
                     PriceLamports |-> priceLamports, EnergyType |-> energyType]))

CallCancelListing ==
    /\ call = Idle
    /\ \E producer \in Keys, amount \in Amounts, priceLamports \in Prices,
       energyType \in EnergyTypes :
        Returns("CancelListing",
                [NoArgs EXCEPT !.producer = producer, !.amount = amount,
                               !.priceLamports = priceLamports,
                               !.energyType = energyType],
                CancelListing(Client, producer, amount, priceLamports, energyType))

CallBuyTokens ==
    /\ call = Idle
    /\ \E buyer \in Keys, producer \in Keys, amount \in Amounts,
       priceLamports \in Prices, energyType \in EnergyTypes :
        Returns("BuyTokens",
                [NoArgs EXCEPT !.buyer = buyer, !.producer = producer,
                               !.amount = amount,
                               !.priceLamports = priceLamports,
                               !.energyType = energyType],
                BuyTokens(Client, buyer, producer, amount, priceLamports,
                          energyType))

CallMintConsumptionTokens ==
    /\ call = Idle
    /\ \E consumer \in Keys, grid \in Keys, gridAuthority \in Keys,
       amount \in Amounts :
        Returns("MintConsumptionTokens",
                [NoArgs EXCEPT !.consumer = consumer, !.grid = grid,
                               !.gridAuthority = gridAuthority,
                               !.amount = amount],
                MintConsumptionTokens(Client, consumer, grid, gridAuthority,
                                      amount))

\* a fetch method was called with args and did outcome
Fetches(op, args, outcome) ==
    /\ call' = [op |-> op, args |-> args]
    /\ result' = NoResult
    /\ queried' = outcome.queried
    /\ fetched' = outcome.returned
    /\ rpcCalls' = [NoCalls EXCEPT !.accountInfo = Len(outcome.queried)]
    /\ pda' = NoDerivation
    /\ codec' = NoCodec
    /\ rendered' = NoRendered
    /\ UNCHANGED <<programID, onCurve, discriminators, remembered, kept>>
    /\ UNCHANGED <<pc, api, signersOk, i, sig, ctxDone, retSig, retErr,
                   reported, firstFinal, cancelAt>>

CallGetGridAccount ==
    /\ call = Idle
    /\ \E grid \in Keys, info \in AccountInfos :
        Fetches("GetGridAccount", [NoArgs EXCEPT !.grid = grid, !.info = info],
                GetGridAccount(Client, grid, info))

CallGetProducerAccount ==
    /\ call = Idle
    /\ \E producer \in Keys, info \in AccountInfos :
        Fetches("GetProducerAccount",
                [NoArgs EXCEPT !.producer = producer, !.info = info],
                GetProducerAccount(Client, producer, info))

CallGetConsumerAccount ==
    /\ call = Idle
    /\ \E consumer \in Keys, info \in AccountInfos :
        Fetches("GetConsumerAccount",
                [NoArgs EXCEPT !.consumer = consumer, !.info = info],
                GetConsumerAccount(Client, consumer, info))

CallGetListingAccount ==
    /\ call = Idle
    /\ \E producer \in Keys, amount \in Amounts, priceLamports \in Prices,
          energyType \in EnergyTypes, info \in AccountInfos :
        Fetches("GetListingAccount",
                [NoArgs EXCEPT !.producer = producer, !.amount = amount,
                               !.priceLamports = priceLamports,
                               !.energyType = energyType, !.info = info],
                GetListingAccount(Client, producer, amount, priceLamports,
                                  energyType, info))

CallGetMintRecord ==
    /\ call = Idle
    /\ \E producer \in Keys, amount \in Amounts, energyType \in EnergyTypes,
          info \in AccountInfos :
        Fetches("GetMintRecord",
                [NoArgs EXCEPT !.producer = producer, !.amount = amount,
                               !.energyType = energyType, !.info = info],
                GetMintRecord(Client, producer, amount, energyType, info))

\* the caller is done with what the last call returned
Discard ==
    /\ call # Idle
    /\ call' = Idle
    /\ result' = NoResult
    /\ queried' = <<>>
    /\ fetched' = NoFetch
    /\ rpcCalls' = NoCalls
    /\ pda' = NoDerivation
    /\ codec' = NoCodec
    /\ rendered' = NoRendered
    /\ UNCHANGED <<programID, onCurve, discriminators, remembered, kept>>
    /\ UNCHANGED <<pc, api, signersOk, i, sig, ctxDone, retSig, retErr,
                   reported, firstFinal, cancelAt>>

\* a Derive*PDA method was called with args and returned out
Derives(op, args, out) ==
    /\ call' = [op |-> op, args |-> args]
    /\ pda' = out
    /\ remembered' = IF remembered.op = "none"
                     THEN [op |-> op, args |-> args, out |-> out,
                           client |-> Client, again |-> FALSE]
                     ELSE IF remembered.op = op /\ remembered.args = args
                     THEN [remembered EXCEPT !.again = TRUE]
                     ELSE remembered
    /\ result' = NoResult
    /\ queried' = <<>>
    /\ fetched' = NoFetch
    /\ rpcCalls' = NoCalls
    /\ codec' = NoCodec
    /\ rendered' = NoRendered
    /\ UNCHANGED <<programID, onCurve, discriminators, kept>>
    /\ UNCHANGED <<pc, api, signersOk, i, sig, ctxDone, retSig, retErr,
                   reported, firstFinal, cancelAt>>

\* the amounts and energy types handed to the derivations by callers
SeedAmounts == {U64(500), U64(1000), <<0, 0, 0, 32768>>}
SeedEnergyTypes == {EnergyTypeSolar, EnergyTypeOther, 255}
SeedPrices == {U64Zero, U64(1000000)}

CallDeriveGridAccountPDA ==
    /\ call = Idle
    /\ \E grid \in Keys :
        Derives("DeriveGridAccountPDA", [NoArgs EXCEPT !.grid = grid],
                DeriveGridAccountPDA(Client, grid))

CallDeriveProducerAccountPDA ==
    /\ call = Idle
    /\ \E producer \in Keys :
        Derives("DeriveProducerAccountPDA",
                [NoArgs EXCEPT !.producer = producer],
                DeriveProducerAccountPDA(Client, producer))

CallDeriveConsumerAccountPDA ==
    /\ call = Idle
    /\ \E consumer \in Keys :
        Derives("DeriveConsumerAccountPDA",
                [NoArgs EXCEPT !.consumer = consumer],
                DeriveConsumerAccountPDA(Client, consumer))

CallDeriveMintRecordPDA ==
    /\ call = Idle
    /\ \E producer \in Keys, amount \in SeedAmounts,
          energyType \in SeedEnergyTypes :
        Derives("DeriveMintRecordPDA",
                [NoArgs EXCEPT !.producer = producer, !.amount = amount,
                               !.energyType = energyType],
                DeriveMintRecordPDA(Client, producer, amount, energyType))

CallDeriveListingAccountPDA ==
    /\ call = Idle
    /\ \E producer \in Keys, amount \in SeedAmounts,
          priceLamports \in SeedPrices, energyType \in SeedEnergyTypes :
        Derives("DeriveListingAccountPDA",
                [NoArgs EXCEPT !.producer = producer, !.amount = amount,
                               !.priceLamports = priceLamports,
                               !.energyType = energyType],
                DeriveListingAccountPDA(Client, producer, amount,
                                        priceLamports, energyType))

\* int64 timestamps as bit patterns: 0, 1700000000 and -1
Timestamps == {U64Zero, U64(1700000000), <<65535, 65535, 65535, 65535>>}

\* record values of each shape
GridAccounts == {[IsActive |-> b] : b \in BOOLEAN}
ProducerAccounts == {[Balance |-> a] : a \in Amounts}
ConsumerAccounts == {[Consumption |-> a] : a \in Amounts}
MintRecords ==
    [Grid : Keys, Producer : Keys, Amount : Amounts, EnergyType : EnergyTypes,
     Timestamp : Timestamps]
ListingAccounts ==
    [Producer : Keys, Amount : Amounts, PriceLamports : Prices,
     EnergyType : EnergyTypes, IsActive : BOOLEAN, CreatedAt : Timestamps]

\* record x of a shape was serialized to bytes and those deserialized to back
RoundTrip(shape, x, bytes, back) ==
    /\ call' = [op |-> "RoundTrip", args |-> NoArgs]
    /\ codec' = [shape |-> shape, value |-> x, bytes |-> bytes, back |-> back]
    /\ result' = NoResult
    /\ queried' = <<>>
    /\ fetched' = NoFetch
    /\ rpcCalls' = NoCalls
    /\ pda' = NoDerivation
    /\ rendered' = NoRendered
    /\ UNCHANGED <<programID, onCurve, discriminators, remembered, kept>>
    /\ UNCHANGED <<pc, api, signersOk, i, sig, ctxDone, retSig, retErr,
                   reported, firstFinal, cancelAt>>

RoundTripGridAccount ==
    /\ call = Idle
    /\ \E x \in GridAccounts :
        RoundTrip("GridAccount", x, SerializeGridAccount(x),
                  DeserializeGridAccount(SerializeGridAccount(x)))

RoundTripProducerAccount ==
    /\ call = Idle
    /\ \E x \in ProducerAccounts :
        RoundTrip("ProducerAccount", x, SerializeProducerAccount(x),
                  DeserializeProducerAccount(SerializeProducerAccount(x)))

RoundTripConsumerAccount ==
    /\ call = Idle
    /\ \E x \in ConsumerAccounts :
        RoundTrip("ConsumerAccount", x, SerializeConsumerAccount(x),
                  DeserializeConsumerAccount(SerializeConsumerAccount(x)))

RoundTripMintRecord ==
    /\ call = Idle
    /\ \E x \in MintRecords :
        RoundTrip("MintRecord", x, SerializeMintRecord(x),
                  DeserializeMintRecord(SerializeMintRecord(x)))

RoundTripListingAccount ==
    /\ call = Idle
    /\ \E x \in ListingAccounts :
        RoundTrip("ListingAccount", x, SerializeListingAccount(x),
                  DeserializeListingAccount(SerializeListingAccount(x)))

\* solana.NewTransaction([]solana.Instruction{instruction}, recentBlockhash,
\*                       solana.TransactionPayer(payer))
NewTransaction(instruction, recentBlockhash, payer) ==
    [instructions |-> <<instruction>>, recentBlockhash |-> recentBlockhash,
     feePayer |-> payer]

\* base58.Encode of transaction.MarshalBinary()
Base58Transaction(transaction) == <<"base58", transaction>>

ErrCrossmintInstruction == "failed to create mint energy tokens instruction"

\* return base58Transaction, nil
Rendered(text) == [text |-> text, err |-> NoError, cause |-> NoError]

\* return "", fmt.Errorf(msg + ": %w", cause)
RenderFailed(msg, cause) == [text |-> <<>>, err |-> msg, cause |-> cause]

\* Client.MintEnergyTokensForCrossmint; reply is what
\* rpcClient.GetRecentBlockhash gives back when it is called
MintEnergyTokensForCrossmint(c, params, payer, reply) ==
    LET built == MintEnergyTokens(c, params) IN
    IF built.err # NoError
    THEN [returned |-> RenderFailed(ErrCrossmintInstruction, built.err),
          blockhashCalls |-> 0]
    ELSE IF reply.err
    THEN [returned |-> RenderFailed(ErrBlockhash, "transport"),
          blockhashCalls |-> 1]
    ELSE [returned |-> Rendered(Base58Transaction(
                          NewTransaction(built.instruction, reply.blockhash,
                                         payer))),
          blockhashCalls |-> 1]

\* Client.CreateTransactionForCrossmint
CreateTransactionForCrossmint(c, instruction, payer, recentBlockhash) ==
    [returned |-> Rendered(Base58Transaction(
                     NewTransaction(instruction, recentBlockhash, payer))),
     blockhashCalls |-> 0]

\* a ...ForCrossmint method was called with args and returned out
Renders(op, args, out) ==
    /\ call' = [op |-> op, args |-> args]
    /\ rendered' = out.returned
    /\ rpcCalls' = [NoCalls EXCEPT !.blockhash = out.blockhashCalls]
    /\ result' = NoResult
    /\ queried' = <<>>
    /\ fetched' = NoFetch
    /\ pda' = NoDerivation
    /\ codec' = NoCodec
    /\ UNCHANGED <<programID, onCurve, discriminators, remembered, kept>>
    /\ UNCHANGED <<pc, api, signersOk, i, sig, ctxDone, retSig, retErr,
                   reported, firstFinal, cancelAt>>

\* the block hashes in use, and what rpcClient.GetRecentBlockhash can give
\* back: an error or one of them
Blockhashes == {1, 2}
BlockhashReplies ==
    {[err |-> TRUE, blockhash |-> 0]}
        \cup {[err |-> FALSE, blockhash |-> h] : h \in Blockhashes}

CallMintEnergyTokensForCrossmint ==
    /\ call = Idle
    /\ \E grid \in Keys, producer \in Keys, gridAuthority \in Keys,
          amount \in Amounts, energyType \in EnergyTypes, payer \in Keys,
          reply \in BlockhashReplies :
        Renders("MintEnergyTokensForCrossmint",
                [NoArgs EXCEPT !.grid = grid, !.producer = producer,
                               !.gridAuthority = gridAuthority,
                               !.amount = amount, !.energyType = energyType,
                               !.payer = payer, !.reply = reply],
                MintEnergyTokensForCrossmint(Client,
                    [Grid |-> grid, Producer |-> producer, Amount |-> amount,
                     EnergyType |-> energyType, GridAuthority |-> gridAuthority],
                    payer, reply))

CallCreateTransactionForCrossmint ==
    /\ call = Idle
    /\ \E grid \in Keys \ {ZeroKey}, authority \in Keys \ {ZeroKey},
          payer \in Keys, recentBlockhash \in Blockhashes :
        LET built == InitializeGrid(Client, [Grid |-> grid,
                                             Authority |-> authority])
        IN  /\ built.err = NoError
            /\ Renders("CreateTransactionForCrossmint",
                       [NoArgs EXCEPT !.instruction = built.instruction,
                                      !.payer = payer,
                                      !.recentBlockhash = recentBlockhash],
                       CreateTransactionForCrossmint(Client, built.instruction,
                                                     payer, recentBlockhash))

\* data := XDiscriminator[:] is the package-level array itself, and the
\* instruction is made of that slice; append(XDiscriminator[:], ...) has no
\* room in the array and allocates
SharesTable(op) ==
    op \in {"InitializeGrid", "InitializeProducer", "InitializeConsumer",
            "CancelListing"}

\* the bytes now in the payload of an instruction of op returned with data
PayloadNow(op, data) == IF SharesTable(op) THEN discriminators[op] ELSE data

\* the caller holds on to the instruction the last builder call returned
Keep ==
    /\ call.op \in DOMAIN discriminators
    /\ result.err = NoError
    /\ kept' = [op |-> call.op, data |-> result.instruction.data]
    /\ UNCHANGED <<programID, onCurve, discriminators, call, result, queried,
                   fetched, pda, remembered, codec, rendered>>
    /\ UNCHANGED sendVars

\* the caller writes a byte into the payload of the instruction the last
\* builder call returned
WritePayload ==
    /\ call.op \in DOMAIN discriminators
    /\ result.err = NoError
    /\ \E j \in {1}, b \in {0} :
        LET written == [result.instruction.data EXCEPT ![j] = b]
        IN  /\ written # result.instruction.data
            /\ result' = [result EXCEPT !.instruction.data = written]
            /\ discriminators' =
                   IF SharesTable(call.op)
                   THEN [discriminators EXCEPT ![call.op] = written]
                   ELSE discriminators
    /\ UNCHANGED <<programID, onCurve, call, queried, fetched, pda,
                   remembered, codec, rendered, kept>>
    /\ UNCHANGED sendVars

NextBuild ==
    \/ CallInitializeGrid
    \/ CallInitializeProducer
    \/ CallInitializeConsumer
    \/ CallMintEnergyTokens
    \/ CallListTokensForSale
    \/ CallCancelListing
    \/ CallBuyTokens
    \/ CallMintConsumptionTokens
    \/ CallGetGridAccount
    \/ CallGetProducerAccount
    \/ CallGetConsumerAccount
    \/ CallGetListingAccount
    \/ CallGetMintRecord
    \/ Discard

\* a client that is only used to submit transactions
InitBuildIdle ==
    /\ programID = ProgramID
    /\ onCurve = [kind \in Kinds |-> {}]
    /\ discriminators = InitialDiscriminators
    /\ call = Idle
    /\ result = NoResult
    /\ queried = <<>>
    /\ fetched = NoFetch
    /\ pda = NoDerivation
    /\ remembered = NoRemembered
    /\ codec = NoCodec
    /\ rendered = NoRendered
    /\ kept = NoKept

-----------------------------------------------------------------------------
\* Specifications

\* one client submitting transactions
Init == InitSend /\ InitBuildIdle

Next == NextSend

Spec == Init /\ [][Next]_vars

\* one client building instructions and fetching accounts
InitBuilder == InitSend /\ InitBuild

NextBuilder == NextBuild

SpecBuild == InitBuilder /\ [][NextBuilder]_vars

\* one client submitting transactions, where every transport call returns
\* and the one-second timer fires
SpecLive ==
    /\ Spec
    /\ WF_vars(GetRecentBlockhash) /\ WF_vars(Sign) /\ WF_vars(Submit)
    /\ WF_vars(Poll) /\ WF_vars(WaitCancelled) /\ WF_vars(WaitElapsed)

\* one client deriving addresses, with other calls in between
NextDerive ==
    \/ CallDeriveGridAccountPDA
    \/ CallDeriveProducerAccountPDA
    \/ CallDeriveConsumerAccountPDA
    \/ CallDeriveMintRecordPDA
    \/ CallDeriveListingAccountPDA
    \/ CallInitializeGrid
    \/ CallGetGridAccount
    \/ Discard

SpecDerive == InitBuilder /\ [][NextDerive]_vars

\* records encoded and decoded again
NextCodec ==
    \/ RoundTripGridAccount
    \/ RoundTripProducerAccount
    \/ RoundTripConsumerAccount
    \/ RoundTripMintRecord
    \/ RoundTripListingAccount
    \/ Discard

SpecCodec == InitBuilder /\ [][NextCodec]_vars

\* one client rendering transactions for a co-signing service
NextCrossmint ==
    \/ CallMintEnergyTokensForCrossmint
    \/ CallCreateTransactionForCrossmint
    \/ Discard

SpecCrossmint == InitBuilder /\ [][NextCrossmint]_vars

\* callers of one client that keep and write into returned instructions
NextShare ==
    \/ CallInitializeGrid
    \/ CallCancelListing
    \/ CallMintConsumptionTokens
    \/ Keep
    \/ WritePayload
    \/ Discard

SpecShare == InitBuilder /\ [][NextShare]_vars

-----------------------------------------------------------------------------
\* Properties of the submit-and-confirm procedure

\* the transport error an error value returned by the library wraps (%w)
Wrapped(e) ==
    IF e = ErrBlockhash THEN {"blockhash"}
    ELSE IF e = ErrSend THEN {"send"}
    ELSE {}

\* C1: SendAndConfirmTransaction stops polling at the first poll that reports
\* finalized: when poll number k (1 <= k <= 30) is the first to report
\* finalized, the invocation has ended, exactly k status polls were made, and
\* it returned the submitted signature with a nil error.
C1_StopsAtFirstFinalized ==
    firstFinal # 0 =>
        /\ firstFinal \in 1..MaxPollAttempts
        /\ pc = "done"
        /\ rpcCalls.status = firstFinal
        /\ retSig = sig
        /\ sig \in Signatures
        /\ retErr = NoError

C1_Witness ==
    /\ pc = "done"
    /\ api = "SendAndConfirmTransaction"
    /\ firstFinal = 3
    /\ rpcCalls.status = 3
    /\ retErr = NoError

\* C2: when the transaction was submitted, ctx was never cancelled and no
\* poll reported finalized, a finished SendAndConfirmTransaction has made
\* exactly 30 status polls and returned the submitted signature with a nil
\* error.
C2_BudgetExhaustedReturnsSignature ==
    ( /\ pc = "done"
      /\ api = "SendAndConfirmTransaction"
      /\ sig # ZeroSignature
      /\ ~ctxDone
      /\ firstFinal = 0 ) =>
        /\ rpcCalls.status = MaxPollAttempts
        /\ i = MaxPollAttempts
        /\ retSig = sig
        /\ retErr = NoError

C2_Witness ==
    /\ pc = "done"
    /\ api = "SendAndConfirmTransaction"
    /\ sig # ZeroSignature
    /\ ~ctxDone
    /\ firstFinal = 0
    /\ rpcCalls.status = 30
    /\ "status" \in reported

\* C3: when ctx is cancelled while the invocation waits between two polls,
\* no status poll is made after the cancellation, and the invocation returns
\* the context error together with the signature obtained from the submit
\* step, which is not the zero signature.
C3_CancelDuringWait ==
    cancelAt.pc = "wait" =>
        /\ rpcCalls.status = cancelAt.polls
        /\ ~cancelAt.final
        /\ pc \in {"wait", "done"}
        /\ pc = "done" =>
              /\ retErr = ErrContext
              /\ retSig = sig
              /\ retSig # ZeroSignature

C3_Witness ==
    /\ pc = "done"
    /\ cancelAt.pc = "wait"
    /\ cancelAt.polls = 2
    /\ retErr = ErrContext
    /\ retSig = sig

\* C4: when GetRecentBlockhash or the submit fails, the invocation (either
\* method) has ended at once with an error and the zero signature: the failed
\* call was made once, nothing was submitted after a failed blockhash fetch,
\* and no status poll was made.
C4_TransportFailureIsImmediate ==
    (reported \cap {"blockhash", "send"}) # {} =>
        /\ pc = "done"
        /\ retSig = ZeroSignature
        /\ retErr \in {ErrBlockhash, ErrSend}
        /\ Wrapped(retErr) = reported
        /\ rpcCalls.status = 0
        /\ rpcCalls.blockhash = 1
        /\ rpcCalls.send = IF "send" \in reported THEN 1 ELSE 0

C4_Witness ==
    /\ pc = "done"
    /\ api = "SendAndConfirmTransaction"
    /\ "send" \in reported
    /\ retErr = ErrSend
    /\ rpcCalls.send = 1

\* C5: every error the transport reported during a finished
\* SendAndConfirmTransaction (blockhash fetch, submit, status poll) is
\* returned to the caller.
C5_EveryTransportErrorReturned ==
    (pc = "done" /\ api = "SendAndConfirmTransaction") =>
        reported \subseteq Wrapped(retErr)

-----------------------------------------------------------------------------
\* Properties of the instruction builders

BuilderOps ==
    {"InitializeGrid", "InitializeProducer", "InitializeConsumer",
     "MintEnergyTokens", "ListTokensForSale", "CancelListing", "BuyTokens",
     "MintConsumptionTokens"}

\* the caller-supplied identifiers of each builder
IdentifiersOf(op) ==
    CASE op = "InitializeGrid" -> {"grid", "authority"}
      [] op = "InitializeProducer" -> {"producer", "authority"}
      [] op = "InitializeConsumer" -> {"consumer", "authority"}
      [] op = "MintEnergyTokens" -> {"grid", "producer", "gridAuthority"}
      [] op = "ListTokensForSale" -> {"producer"}
      [] op = "CancelListing" -> {"producer"}
      [] op = "BuyTokens" -> {"buyer", "producer"}
      [] op = "MintConsumptionTokens" -> {"consumer", "grid", "gridAuthority"}
      [] OTHER -> {}

\* the error that names an identifier
ErrorNaming(field) ==
    CASE field = "grid" -> ErrGrid
      [] field = "producer" -> ErrProducer
      [] field = "consumer" -> ErrConsumer
      [] field = "buyer" -> ErrBuyer
      [] field = "authority" -> ErrAuthority
      [] field = "gridAuthority" -> ErrGridAuthority

ValidationErrors ==
    {ErrGrid, ErrProducer, ErrConsumer, ErrBuyer, ErrAuthority,
     ErrGridAuthority, ErrAmount, ErrPrice, ErrEnergyType}

\* the builders that receive an amount, a price, an energy type
TakesAmount ==
    {"MintEnergyTokens", "ListTokensForSale", "CancelListing", "BuyTokens",
     "MintConsumptionTokens"}
TakesPrice == {"ListTokensForSale", "CancelListing", "BuyTokens"}
TakesEnergyType ==
    {"MintEnergyTokens", "ListTokensForSale", "CancelListing", "BuyTokens"}

\* the last call was a builder call that returned an instruction
BuiltBy(op) == call.op = op /\ result.err = NoError

\* C6: a builder that receives an amount, a price or an energy type returns
\* a validation error and no instruction when the amount is 0, when the
\* price is 0, or when the energy type is not one of 0, 1, 2, 3.
C6_NumericParametersValidated ==
    ( \/ call.op \in TakesAmount /\ call.args.amount = U64Zero
      \/ call.op \in TakesPrice /\ call.args.priceLamports = U64Zero
      \/ call.op \in TakesEnergyType /\ call.args.energyType \notin 0..3 ) =>
        /\ result.err \in ValidationErrors
        /\ result.instruction = NoInstruction

\* C7: when a caller-supplied identifier of a builder call is the all-zero
\* key, the call returns the error that names a zero identifier and no
\* instruction, has made no address derivation and no transport call.
C7_ZeroIdentifierRejected ==
    \A field \in IdentifiersOf(call.op) :
        call.args[field] = ZeroKey =>
            /\ \E named \in IdentifiersOf(call.op) :
                  /\ call.args[named] = ZeroKey
                  /\ result.err = ErrorNaming(named)
            /\ (\A other \in IdentifiersOf(call.op) \ {field} :
                    call.args[other] # ZeroKey)
                   => result.err = ErrorNaming(field)
            /\ result.instruction = NoInstruction
            /\ result.derived = <<>>
            /\ queried = <<>>
            /\ rpcCalls = NoCalls

C7_Witness ==
    /\ call.op = "MintConsumptionTokens"
    /\ call.args.consumer # ZeroKey
    /\ call.args.grid = ZeroKey
    /\ call.args.gridAuthority # ZeroKey
    /\ call.args.amount # U64Zero
    /\ result.err = ErrGrid
    /\ result.instruction = NoInstruction

\* the listing address each of the four places uses for key a and a buyer:
\* account 1 of ListTokensForSale, account 0 of BuyTokens, account 0 of
\* CancelListing (0-based), and the address GetListingAccount asks for;
\* a place that returns an error uses none
ListingAddresses(a, buyer) ==
    LET list == ListTokensForSale(Client,
                    [Producer |-> a.producer, Amount |-> a.amount,
                     PriceLamports |-> a.priceLamports,
                     EnergyType |-> a.energyType])
        buy == BuyTokens(Client, buyer, a.producer, a.amount, a.priceLamports,
                         a.energyType)
        cancel == CancelListing(Client, a.producer, a.amount, a.priceLamports,
                                a.energyType)
        get == GetListingAccount(Client, a.producer, a.amount, a.priceLamports,
                                 a.energyType, AccountAbsent)
    IN  [list |-> IF list.err = NoError
                  THEN <<list.instruction.accounts[2].PublicKey>> ELSE <<>>,
         buy |-> IF buy.err = NoError
                 THEN <<buy.instruction.accounts[1].PublicKey>> ELSE <<>>,
         cancel |-> IF cancel.err = NoError
                    THEN <<cancel.instruction.accounts[1].PublicKey>> ELSE <<>>,
         get |-> get.queried]

\* the listing address the last call used, if it used one
ListingAddressUsed ==
    IF BuiltBy("ListTokensForSale")
    THEN <<result.instruction.accounts[2].PublicKey>>
    ELSE IF BuiltBy("BuyTokens") \/ BuiltBy("CancelListing")
    THEN <<result.instruction.accounts[1].PublicKey>>
    ELSE IF call.op = "GetListingAccount" THEN queried
    ELSE <<>>

\* C8: for one client and one (producer, amount, price, energy type), the
\* listing address the last call used is the one every other place uses for
\* the same key, whoever the buyer is: account 1 of ListTokensForSale,
\* account 0 of BuyTokens, account 0 of CancelListing and the address
\* GetListingAccount asks the transport for.  A place that returns an error
\* uses no address; when every derivation succeeds, BuyTokens and
\* CancelListing use it for every non-zero producer and ListTokensForSale
\* for every valid key.
C8_ListingAddressAgrees ==
    ListingAddressUsed # <<>> =>
        \A buyer \in Keys \ {ZeroKey} :
            LET places == ListingAddresses(call.args, buyer)
                valid == /\ call.args.amount # U64Zero
                         /\ call.args.priceLamports # U64Zero
                         /\ call.args.energyType \in 0..3
            IN  /\ places.get = ListingAddressUsed
                /\ places.buy \in {<<>>, ListingAddressUsed}
                /\ places.cancel \in {<<>>, ListingAddressUsed}
                /\ places.list \in {<<>>, ListingAddressUsed}
                /\ (call.args.producer # ZeroKey /\ NoneOnCurve)
                       => /\ places.buy = ListingAddressUsed
                          /\ places.cancel = ListingAddressUsed
                          /\ valid => places.list = ListingAddressUsed

C8_Witness ==
    /\ BuiltBy("BuyTokens")
    /\ call.args.amount = U64(500)
    /\ call.args.priceLamports = U64(1000000)
    /\ call.args.energyType = EnergyTypeWind
    /\ call.args.buyer # call.args.producer
    /\ ListingAddresses(call.args, call.args.producer).list
           = <<result.instruction.accounts[1].PublicKey>>

\* the mint-record address of the last call, if it used one: account 2
\* (0-based) of a MintEnergyTokens instruction, or the address GetMintRecord
\* asked the transport for
MintRecordAddressUsed ==
    IF BuiltBy("MintEnergyTokens")
    THEN <<result.instruction.accounts[3].PublicKey>>
    ELSE IF call.op = "GetMintRecord" THEN queried
    ELSE <<>>

\* C9: the mint-record address at account 2 of a MintEnergyTokens
\* instruction depends on (producer, amount, energy type) only: calling
\* again gives the same address, so does any other grid and grid authority,
\* and it is the address GetMintRecord asks the transport for.
C9_MintRecordAddressIsFunctionOfKey ==
    MintRecordAddressUsed # <<>> =>
        /\ GetMintRecord(Client, call.args.producer, call.args.amount,
                         call.args.energyType, AccountAbsent).queried
               = MintRecordAddressUsed
        /\ ( /\ call.args.producer # ZeroKey
             /\ call.args.amount # U64Zero
             /\ call.args.energyType \in 0..3 ) =>
               \A grid \in Keys \ {ZeroKey}, gridAuthority \in Keys \ {ZeroKey} :
                   LET again == MintEnergyTokens(Client,
                                    [Grid |-> grid,
                                     Producer |-> call.args.producer,
                                     Amount |-> call.args.amount,
                                     EnergyType |-> call.args.energyType,
                                     GridAuthority |-> gridAuthority])
                   IN  /\ NoneOnCurve => again.err = NoError
                       /\ again.err = NoError =>
                              <<again.instruction.accounts[3].PublicKey>>
                                  = MintRecordAddressUsed

C9_Witness ==
    /\ BuiltBy("MintEnergyTokens")
    /\ call.args.amount = U64(1000)
    /\ call.args.energyType = EnergyTypeSolar
    /\ call.args.grid # call.args.gridAuthority
    /\ Len(result.instruction.accounts) = 6

\* the entity identifier and the derived entity address of an Initialize call
EntityOf(op) ==
    CASE op = "InitializeGrid" ->
             [id |-> call.args.grid,
              pda |-> DeriveGridAccountPDA(Client, call.args.grid)]
      [] op = "InitializeProducer" ->
             [id |-> call.args.producer,
              pda |-> DeriveProducerAccountPDA(Client, call.args.producer)]
      [] op = "InitializeConsumer" ->
             [id |-> call.args.consumer,
              pda |-> DeriveConsumerAccountPDA(Client, call.args.consumer)]

\* C10: an instruction built by InitializeGrid, InitializeProducer or
\* InitializeConsumer has exactly four accounts, in this order: the grid,
\* producer or consumer PDA of the supplied identifier (writable, not
\* signer), the identifier (not writable, not signer), the authority
\* (writable, signer), the system program (not writable, not signer).
C10_InitializeAccounts ==
    \A op \in {"InitializeGrid", "InitializeProducer", "InitializeConsumer"} :
        BuiltBy(op) =>
            LET accounts == result.instruction.accounts
                entity == EntityOf(op)
            IN  /\ Len(accounts) = 4
                /\ entity.pda.err = NoDerivationError
                /\ accounts[1].PublicKey = entity.pda.address
                /\ accounts[1].IsWritable /\ ~accounts[1].IsSigner
                /\ accounts[2].PublicKey = entity.id
                /\ ~accounts[2].IsWritable /\ ~accounts[2].IsSigner
                /\ accounts[3].PublicKey = call.args.authority
                /\ accounts[3].IsWritable /\ accounts[3].IsSigner
                /\ accounts[4].PublicKey = SystemProgramID
                /\ ~accounts[4].IsWritable /\ ~accounts[4].IsSigner

C10_Witness ==
    /\ BuiltBy("InitializeConsumer")
    /\ call.args.consumer # call.args.authority
    /\ Len(result.instruction.accounts) = 4
    /\ result.instruction.accounts[3].IsSigner

\* the public keys, the writable flags and the signer flags of the accounts
\* of the instruction the last call returned, in order
AccountKeys == [k \in DOMAIN result.instruction.accounts |->
                   result.instruction.accounts[k].PublicKey]
WritableFlags == [k \in DOMAIN result.instruction.accounts |->
                     result.instruction.accounts[k].IsWritable]
SignerFlags == [k \in DOMAIN result.instruction.accounts |->
                   result.instruction.accounts[k].IsSigner]

\* byte j (1..8) of a uint64 written lowest byte first
LittleEndianByte(v, j) ==
    IF j % 2 = 1 THEN v[(j + 1) \div 2] % 256 ELSE v[j \div 2] \div 256

LittleEndian(v) == [j \in 1..8 |-> LittleEndianByte(v, j)]

\* the 8-byte opcode of each operation
Opcode(op) ==
    CASE op = "InitializeGrid" -> <<175, 175, 109, 31, 13, 152, 155, 237>>
      [] op = "InitializeProducer" -> <<12, 51, 59, 67, 52, 36, 206, 188>>
      [] op = "InitializeConsumer" -> <<111, 17, 185, 250, 60, 122, 38, 254>>
      [] op = "MintEnergyTokens" -> <<145, 138, 166, 112, 142, 73, 199, 45>>
      [] op = "ListTokensForSale" -> <<107, 233, 40, 72, 85, 36, 174, 155>>
      [] op = "CancelListing" -> <<232, 219, 223, 41, 219, 236, 220, 190>>
      [] op = "BuyTokens" -> <<102, 6, 61, 18, 1, 218, 235, 234>>
      [] op = "MintConsumptionTokens" -> <<134, 250, 50, 37, 82, 88, 162, 124>>

\* the payload of the last instruction after its first 8 bytes
PayloadFields ==
    SubSeq(result.instruction.data, 9, Len(result.instruction.data))

\* C11: a MintEnergyTokens instruction has six accounts, in order the
\* producer PDA (writable), the grid PDA (read-only), the mint-record PDA
\* (writable), the producer (read-only), the grid authority (writable,
\* signer), the system program (read-only), and its payload fields are the
\* amount then the energy type; a MintConsumptionTokens instruction has
\* three, the consumer PDA (writable), the grid PDA (read-only), the grid
\* authority (writable, signer), and its payload field is the amount; the
\* grid authority is the only signer of either.
C11_MintAccounts ==
    /\ BuiltBy("MintEnergyTokens") =>
        /\ AccountKeys =
             <<DeriveProducerAccountPDA(Client, call.args.producer).address,
               DeriveGridAccountPDA(Client, call.args.grid).address,
               DeriveMintRecordPDA(Client, call.args.producer, call.args.amount,
                                   call.args.energyType).address,
               call.args.producer, call.args.gridAuthority, SystemProgramID>>
        /\ WritableFlags = <<TRUE, FALSE, TRUE, FALSE, TRUE, FALSE>>
        /\ SignerFlags = <<FALSE, FALSE, FALSE, FALSE, TRUE, FALSE>>
        /\ PayloadFields =
             LittleEndian(call.args.amount) \o <<call.args.energyType>>
    /\ BuiltBy("MintConsumptionTokens") =>
        /\ AccountKeys =
             <<DeriveConsumerAccountPDA(Client, call.args.consumer).address,
               DeriveGridAccountPDA(Client, call.args.grid).address,
               call.args.gridAuthority>>
        /\ WritableFlags = <<TRUE, FALSE, TRUE>>
        /\ SignerFlags = <<FALSE, FALSE, TRUE>>
        /\ PayloadFields = LittleEndian(call.args.amount)

C11_Witness ==
    /\ BuiltBy("MintConsumptionTokens")
    /\ call.args.amount = U64(1000)
    /\ call.args.consumer # call.args.grid
    /\ Len(result.instruction.accounts) = 3
    /\ PayloadFields = <<232, 3, 0, 0, 0, 0, 0, 0>>

\* C12: a ListTokensForSale instruction has four accounts, in order the
\* producer PDA (writable), the listing PDA (writable), the producer
\* (writable, signer), the system program (read-only), and its payload
\* fields are the amount, the price, the energy type; a CancelListing
\* instruction has three, the listing PDA (writable), the producer PDA
\* (writable), the producer (writable, signer), and no payload field; the
\* listing PDA and the producer PDA come in opposite order in the two.
C12_ListingAccounts ==
    LET producerPDA == DeriveProducerAccountPDA(Client, call.args.producer).address
        listingPDA == DeriveListingAccountPDA(Client, call.args.producer,
                          call.args.amount, call.args.priceLamports,
                          call.args.energyType).address
    IN
    /\ BuiltBy("ListTokensForSale") =>
        /\ AccountKeys = <<producerPDA, listingPDA, call.args.producer,
                           SystemProgramID>>
        /\ WritableFlags = <<TRUE, TRUE, TRUE, FALSE>>
        /\ SignerFlags = <<FALSE, FALSE, TRUE, FALSE>>
        /\ PayloadFields =
             LittleEndian(call.args.amount)
                 \o LittleEndian(call.args.priceLamports)
                 \o <<call.args.energyType>>
        /\ LET cancel == CancelListing(Client, call.args.producer,
                             call.args.amount, call.args.priceLamports,
                             call.args.energyType).instruction.accounts
           IN  /\ cancel[1].PublicKey = AccountKeys[2]
               /\ cancel[2].PublicKey = AccountKeys[1]
    /\ BuiltBy("CancelListing") =>
        /\ AccountKeys = <<listingPDA, producerPDA, call.args.producer>>
        /\ WritableFlags = <<TRUE, TRUE, TRUE>>
        /\ SignerFlags = <<FALSE, FALSE, TRUE>>
        /\ PayloadFields = <<>>

C12_Witness ==
    /\ BuiltBy("CancelListing")
    /\ call.args.amount = U64(500)
    /\ call.args.priceLamports = U64(1000000)
    /\ Len(result.instruction.accounts) = 3
    /\ AccountKeys[1] # AccountKeys[2]

\* C13: a BuyTokens instruction has five accounts, in order the listing PDA
\* (writable), the consumer PDA of the buyer (writable), the producer
\* (writable, not signer), the buyer (writable, signer), the system program
\* (read-only), and its payload is the BuyTokens opcode followed by exactly
\* the 32 bytes of the listing address that is account 0.
C13_BuyTokensAccountsAndPayload ==
    BuiltBy("BuyTokens") =>
        /\ AccountKeys =
             <<DeriveListingAccountPDA(Client, call.args.producer,
                   call.args.amount, call.args.priceLamports,
                   call.args.energyType).address,
               DeriveConsumerAccountPDA(Client, call.args.buyer).address,
               call.args.producer, call.args.buyer, SystemProgramID>>
        /\ WritableFlags = <<TRUE, TRUE, TRUE, TRUE, FALSE>>
        /\ SignerFlags = <<FALSE, FALSE, FALSE, TRUE, FALSE>>
        /\ Len(result.instruction.data) = 40
        /\ SubSeq(result.instruction.data, 1, 8) = Opcode("BuyTokens")
        /\ \A j \in 1..32 :
               result.instruction.data[8 + j] = <<"byte", j, AccountKeys[1]>>

C13_Witness ==
    /\ BuiltBy("BuyTokens")
    /\ call.args.buyer # call.args.producer
    /\ Len(result.instruction.data) = 40
    /\ result.instruction.data[40] = <<"byte", 32, AccountKeys[1]>>

\* the number of payload bytes each operation emits
PayloadLength(op) ==
    CASE op \in {"InitializeGrid", "InitializeProducer", "InitializeConsumer",
                 "CancelListing"} -> 8
      [] op = "MintConsumptionTokens" -> 16
      [] op = "MintEnergyTokens" -> 17
      [] op = "ListTokensForSale" -> 25
      [] op = "BuyTokens" -> 40

\* C14: the payload of every built instruction is the 8-byte opcode of its
\* own operation followed by its fields in declaration order, integers
\* little-endian, nothing else: 8 bytes for the three Initialize operations
\* and CancelListing, 16 for MintConsumptionTokens, 17 for MintEnergyTokens,
\* 25 for ListTokensForSale, 40 for BuyTokens.
C14_PayloadLayout ==
    \A op \in BuilderOps :
        BuiltBy(op) =>
            /\ Len(result.instruction.data) = PayloadLength(op)
            /\ SubSeq(result.instruction.data, 1, 8) = Opcode(op)
            /\ op = "MintConsumptionTokens" =>
                   PayloadFields = LittleEndian(call.args.amount)
            /\ op = "MintEnergyTokens" =>
                   PayloadFields = LittleEndian(call.args.amount)
                                       \o <<call.args.energyType>>
            /\ op = "ListTokensForSale" =>
                   PayloadFields = LittleEndian(call.args.amount)
                                       \o LittleEndian(call.args.priceLamports)
                                       \o <<call.args.energyType>>
            /\ op = "BuyTokens" =>
                   PayloadFields =
                       [j \in 1..32 |-> <<"byte", j, AccountKeys[1]>>]

C14_Witness ==
    /\ BuiltBy("ListTokensForSale")
    /\ call.args.amount = U64(500)
    /\ call.args.priceLamports = U64(1000000)
    /\ call.args.energyType = EnergyTypeHydro
    /\ result.instruction.data =
           <<107, 233, 40, 72, 85, 36, 174, 155,
             244, 1, 0, 0, 0, 0, 0, 0,
             64, 66, 15, 0, 0, 0, 0, 0, 2>>

-----------------------------------------------------------------------------
\* Properties of the derivations, the fetchers and the record layouts

DeriveOps ==
    {"DeriveGridAccountPDA", "DeriveProducerAccountPDA",
     "DeriveConsumerAccountPDA", "DeriveMintRecordPDA",
     "DeriveListingAccountPDA"}

SeedsUsed ==
    CASE call.op = "DeriveGridAccountPDA" -> GridSeeds(call.args.grid)
      [] call.op = "DeriveProducerAccountPDA" ->
             ProducerSeeds(call.args.producer)
      [] call.op = "DeriveConsumerAccountPDA" ->
             ConsumerSeeds(call.args.consumer)
      [] call.op = "DeriveMintRecordPDA" ->
             MintRecordSeeds(call.args.producer, call.args.amount,
                             call.args.energyType)
      [] call.op = "DeriveListingAccountPDA" ->
             ListingSeeds(call.args.producer, call.args.amount,
                          call.args.priceLamports, call.args.energyType)

\* the seed list the current call is to build: the ASCII tag, the
\* identifier, the numbers as 8 bytes lowest first, the energy type as 1 byte
SeedsExpected ==
    CASE call.op = "DeriveGridAccountPDA" ->
             <<<<103, 114, 105, 100>>, call.args.grid>>
      [] call.op = "DeriveProducerAccountPDA" ->
             <<<<112, 114, 111, 100, 117, 99, 101, 114>>, call.args.producer>>
      [] call.op = "DeriveConsumerAccountPDA" ->
             <<<<99, 111, 110, 115, 117, 109, 101, 114>>, call.args.consumer>>
      [] call.op = "DeriveMintRecordPDA" ->
             <<<<109, 105, 110, 116>>, call.args.producer,
               LittleEndian(call.args.amount), <<call.args.energyType>>>>
      [] call.op = "DeriveListingAccountPDA" ->
             <<<<108, 105, 115, 116, 105, 110, 103>>, call.args.producer,
               LittleEndian(call.args.amount),
               LittleEndian(call.args.priceLamports),
               <<call.args.energyType>>>>

\* C17: the seeds of each derivation are, in order, "grid" and the grid;
\* "producer" and the producer; "consumer" and the consumer; "mint", the
\* producer, the amount as 8 bytes little-endian, the energy type as 1
\* byte; "listing", the producer, the amount and the price as 8 bytes
\* little-endian each, the energy type as 1 byte.  No seed is longer than
\* 32 bytes, and the address is the hash of these seeds, the bump and the
\* client's program ID.
C17_SeedLists ==
    call.op \in DeriveOps =>
        /\ SeedsUsed = SeedsExpected
        /\ \A k \in DOMAIN SeedsUsed : Len(SeedsUsed[k]) <= 32
        /\ pda.err = NoDerivationError =>
               pda.address =
                   <<"pda", Concat(SeedsExpected) \o <<pda.bump>>, programID>>

C17_Witness ==
    /\ call.op = "DeriveListingAccountPDA"
    /\ call.args.amount = U64(500)
    /\ call.args.priceLamports = U64(1000000)
    /\ call.args.energyType = EnergyTypeOther
    /\ pda.err = NoDerivationError
    /\ SeedsUsed[3] = <<244, 1, 0, 0, 0, 0, 0, 0>>
    /\ SeedsUsed[4] = <<64, 66, 15, 0, 0, 0, 0, 0>>
    /\ programID = CustomProgramID

FetchOps ==
    {"GetGridAccount", "GetProducerAccount", "GetConsumerAccount",
     "GetListingAccount", "GetMintRecord"}

\* the full stored length of the record each fetch decodes
FullLength(op) ==
    CASE op = "GetGridAccount" -> GridAccountSize
      [] op = "GetProducerAccount" -> ProducerAccountSize
      [] op = "GetConsumerAccount" -> ConsumerAccountSize
      [] op = "GetListingAccount" -> ListingAccountSize
      [] op = "GetMintRecord" -> MintRecordSize

\* the last call was a fetch that reached the transport
Asked(op) == call.op = op /\ queried # <<>>

\* C18: a fetch whose account holds fewer bytes than the record's full
\* layout, from none at all up to one less than the full length, returns an
\* error and no record, and does not panic.
C18_ShortDataIsAnError ==
    \A op \in FetchOps :
        ( /\ Asked(op)
          /\ call.args.info.present
          /\ Len(call.args.info.data) < FullLength(op) ) =>
            /\ ~fetched.panic
            /\ fetched.err # NoError
            /\ fetched.record = NoRecord

NotFoundError(op) ==
    CASE op = "GetGridAccount" -> "grid account not found"
      [] op = "GetProducerAccount" -> "producer account not found"
      [] op = "GetConsumerAccount" -> "consumer account not found"
      [] op = "GetListingAccount" -> "listing account not found"
      [] op = "GetMintRecord" -> "mint record not found"

TransportError(op) ==
    CASE op = "GetGridAccount" -> "failed to get grid account info"
      [] op = "GetProducerAccount" -> "failed to get producer account info"
      [] op = "GetConsumerAccount" -> "failed to get consumer account info"
      [] op = "GetListingAccount" -> "failed to get listing account info"
      [] op = "GetMintRecord" -> "failed to get mint record info"

\* C19: a fetch returns the not-found error of its record and no record
\* when the transport reports no account at the derived address; when the
\* transport call fails it returns that failure, wrapped, and no record,
\* and nothing was decoded.
C19_NotFoundAndTransportErrors ==
    \A op \in FetchOps :
        Asked(op) =>
            /\ (~call.args.info.err /\ ~call.args.info.present) =>
                   /\ fetched.err = NotFoundError(op)
                   /\ fetched.record = NoRecord
                   /\ ~fetched.panic
            /\ call.args.info.err =>
                   /\ fetched.err = TransportError(op)
                   /\ fetched.record = NoRecord
                   /\ ~fetched.panic

C19_Witness ==
    /\ Asked("GetProducerAccount")
    /\ call.args.info.err
    /\ fetched.err = ErrAccountInfoProducer
    /\ fetched.record = NoRecord
    /\ rpcCalls.accountInfo = 1

\* the fixed length of the encoding of each record shape, and its size
\* constant
ShapeLength(shape) ==
    CASE shape = "GridAccount" -> 1
      [] shape = "ProducerAccount" -> 8
      [] shape = "ConsumerAccount" -> 8
      [] shape = "MintRecord" -> 81
      [] shape = "ListingAccount" -> 58

ShapeSize(shape) ==
    CASE shape = "GridAccount" -> GridAccountSize
      [] shape = "ProducerAccount" -> ProducerAccountSize
      [] shape = "ConsumerAccount" -> ConsumerAccountSize
      [] shape = "MintRecord" -> MintRecordSize
      [] shape = "ListingAccount" -> ListingAccountSize

\* C20: decoding the encoding of a record gives the record back; the
\* encoding is 1, 8, 8, 81, 58 bytes long for GridAccount, ProducerAccount,
\* ConsumerAccount, MintRecord, ListingAccount, and the size constant of the
\* shape is 8 more.
C20_RoundTrip ==
    codec.shape # "none" =>
        /\ codec.back = Fetched(codec.value)
        /\ Len(codec.bytes) = ShapeLength(codec.shape)
        /\ ShapeSize(codec.shape) = 8 + Len(codec.bytes)

C20_Witness ==
    /\ codec.shape = "ListingAccount"
    /\ codec.value.Amount = U64(500)
    /\ codec.value.CreatedAt = <<65535, 65535, 65535, 65535>>
    /\ codec.value.IsActive
    /\ Len(codec.bytes) = 58
    /\ codec.back.record = codec.value

-----------------------------------------------------------------------------
\* Further properties of SendTransaction and SendAndConfirmTransaction

\* the state of the confirmation loop: polls made, waits sat through, and
\* how a finished call got out of the loop
PollBudgetKept ==
    /\ rpcCalls.status <= 30
    /\ i <= 30
    /\ pc = "poll" => rpcCalls.status = i
    /\ pc = "wait" => rpcCalls.status = i + 1 /\ firstFinal = 0
    /\ (pc = "done" /\ rpcCalls.status > 0) =>
           \/ firstFinal = rpcCalls.status
           \/ firstFinal = 0 /\ retErr = ErrContext /\ ctxDone
           \/ firstFinal = 0 /\ rpcCalls.status = 30 /\ i = 30
                /\ retErr = NoError

\* C26: in SendAndConfirmTransaction a poll that fails, has no status entry
\* or reports processed or confirmed uses up one of the 30 attempts and is
\* followed by the wait, also after the 30th; only a finalized poll, a
\* cancellation during the wait or the end of the budget ends the call, and
\* a call that has started polling returns, after at most 30 polls and 30
\* waits.
C26_NonFinalPollsUseTheBudget ==
    /\ []PollBudgetKept
    /\ (pc = "poll") ~> (pc = "done")

C26_Witness ==
    /\ pc = "done"
    /\ api = "SendAndConfirmTransaction"
    /\ rpcCalls.status = 30
    /\ i = 30
    /\ "status" \in reported
    /\ firstFinal = 0
    /\ retErr = NoError

\* C27: SendTransaction fetches the blockhash, signs, then submits:
\* nothing is submitted unless the blockhash was obtained and the signing
\* went through, and with a signer missing the call returns the signing
\* error and the zero signature and has submitted nothing.
C27_BlockhashSignSubmit ==
    /\ pc \in {"sign", "submit"} =>
           /\ rpcCalls.blockhash = 1
           /\ "blockhash" \notin reported
           /\ rpcCalls.send = 0
    /\ pc = "submit" => signersOk
    /\ rpcCalls.send > 0 =>
           /\ rpcCalls.send = 1
           /\ rpcCalls.blockhash = 1
           /\ "blockhash" \notin reported
           /\ signersOk
    /\ (pc = "done" /\ ~signersOk /\ "blockhash" \notin reported) =>
           /\ retErr = ErrSign
           /\ retSig = ZeroSignature
           /\ rpcCalls.send = 0
           /\ rpcCalls.status = 0

C27_Witness ==
    /\ pc = "done"
    /\ api = "SendTransaction"
    /\ ~signersOk
    /\ rpcCalls.blockhash = 1
    /\ retErr = ErrSign
    /\ retSig = ZeroSignature
    /\ rpcCalls.send = 0

-----------------------------------------------------------------------------
\* Further properties of the fetchers, the builders and the derivations

\* two other contents for the first 8 bytes of a stored buffer
OtherTags == {[j \in 1..8 |-> 0], [j \in 1..8 |-> 255]}

\* the current fetch made again with another answer of the transport
FetchedWith(info) ==
    CASE call.op = "GetGridAccount" ->
             GetGridAccount(Client, call.args.grid, info).returned
      [] call.op = "GetProducerAccount" ->
             GetProducerAccount(Client, call.args.producer, info).returned
      [] call.op = "GetConsumerAccount" ->
             GetConsumerAccount(Client, call.args.consumer, info).returned
      [] call.op = "GetListingAccount" ->
             GetListingAccount(Client, call.args.producer, call.args.amount,
                               call.args.priceLamports, call.args.energyType,
                               info).returned
      [] call.op = "GetMintRecord" ->
             GetMintRecord(Client, call.args.producer, call.args.amount,
                           call.args.energyType, info).returned

\* the decoding of the record of a fetch from body
DecodedBy(op, body) ==
    CASE op = "GetGridAccount" -> DeserializeGridAccount(body)
      [] op = "GetProducerAccount" -> DeserializeProducerAccount(body)
      [] op = "GetConsumerAccount" -> DeserializeConsumerAccount(body)
      [] op = "GetListingAccount" -> DeserializeListingAccount(body)
      [] op = "GetMintRecord" -> DeserializeMintRecord(body)

\* C21: a fetch does not look at the first 8 bytes of the stored data: what
\* it returns is the decoding of the bytes from offset 8 on, and it returns
\* the same for a buffer that differs only in its first 8 bytes.
C21_TagIgnored ==
    \A op \in FetchOps :
        ( /\ Asked(op)
          /\ call.args.info.present
          /\ Len(call.args.info.data) >= 8 ) =>
            LET body == SubSeq(call.args.info.data, 9,
                               Len(call.args.info.data))
            IN  /\ fetched = DecodedBy(op, body)
                /\ \A tag \in OtherTags :
                       FetchedWith(AccountData(tag \o body)) = fetched

C21_Witness ==
    /\ Asked("GetListingAccount")
    /\ Len(call.args.info.data) = 66
    /\ fetched.err = NoError
    /\ fetched.record.Producer[1] = 9
    /\ fetched.record.Amount = <<10793, 11307, 11821, 12335>>

\* C22: the opcodes a client's builders emit are that client's own opcode
\* set, chosen when the client is made, and not one table read by every
\* client.
C22_OpcodeSetPerClient ==
    \A op \in BuilderOps :
        BuiltBy(op) =>
            /\ "opcodes" \in DOMAIN Client
            /\ SubSeq(result.instruction.data, 1, 8) = Client.opcodes[op]

\* the addresses of the accounts of the last instruction that are derived
DerivedAccounts ==
    {result.instruction.accounts[k].PublicKey :
        k \in {n \in DOMAIN result.instruction.accounts :
                  Len(result.instruction.accounts[n].PublicKey) = 3}}

ProgramIDUsed ==
    /\ \A op \in BuilderOps :
           BuiltBy(op) =>
               /\ result.instruction.programID = programID
               /\ \A address \in DerivedAccounts : address[3] = programID
    /\ \A k \in DOMAIN queried : queried[k][3] = programID

C28_OneSigner ==
    \A op \in BuilderOps :
        BuiltBy(op) =>
            LET accounts == result.instruction.accounts
                signers == {k \in DOMAIN accounts : accounts[k].IsSigner}
            IN  /\ Cardinality(signers) = 1
                /\ \A k \in signers :
                       /\ accounts[k].IsWritable
                       /\ Len(accounts[k].PublicKey) = PublicKeyLength
                       /\ \E field \in IdentifiersOf(op) :
                              accounts[k].PublicKey = call.args[field]
                /\ \A k \in DOMAIN accounts :
                       /\ Len(accounts[k].PublicKey) = 3 => ~accounts[k].IsSigner
                       /\ accounts[k].PublicKey = SystemProgramID =>
                              /\ k = Len(accounts)
                              /\ ~accounts[k].IsWritable
                              /\ ~accounts[k].IsSigner

C28_Witness ==
    /\ BuiltBy("BuyTokens")
    /\ call.args.buyer # call.args.producer
    /\ result.instruction.accounts[4].IsSigner
    /\ result.instruction.accounts[4].PublicKey = call.args.buyer
    /\ result.instruction.accounts[5].PublicKey = SystemProgramID

\* the seed list a Derive*PDA call with these arguments builds
SeedsOf(op, args) ==
    CASE op = "DeriveGridAccountPDA" -> GridSeeds(args.grid)
      [] op = "DeriveProducerAccountPDA" -> ProducerSeeds(args.producer)
      [] op = "DeriveConsumerAccountPDA" -> ConsumerSeeds(args.consumer)
      [] op = "DeriveMintRecordPDA" ->
             MintRecordSeeds(args.producer, args.amount, args.energyType)
      [] op = "DeriveListingAccountPDA" ->
             ListingSeeds(args.producer, args.amount, args.priceLamports,
                          args.energyType)

\* C29: two derivations of one client hash the same seed bytes only when
\* they are of the same kind and have the same key fields: the current
\* call and the client's first call have equal concatenated seeds only if
\* they are the same method with the same arguments.
C29_SeedsDoNotCollide ==
    ( /\ call.op \in DeriveOps
      /\ remembered.op \in DeriveOps
      /\ Concat(SeedsOf(call.op, call.args))
             = Concat(SeedsOf(remembered.op, remembered.args)) ) =>
        /\ call.op = remembered.op
        /\ call.args = remembered.args

C29_Witness ==
    /\ call.op = "DeriveProducerAccountPDA"
    /\ remembered.op = "DeriveConsumerAccountPDA"
    /\ call.args.producer = remembered.args.consumer
    /\ Len(Concat(SeedsOf(call.op, call.args)))
           = Len(Concat(SeedsOf(remembered.op, remembered.args)))
    /\ pda.err = NoDerivationError
    /\ remembered.out.err = NoDerivationError
    /\ pda.address # remembered.out.address

\* C30: MintEnergyTokens, ListTokensForSale and MintConsumptionTokens
\* return a validation error and no instruction for an amount above
\* MaxEnergyAmount, and ListTokensForSale for a price above
\* MaxPriceLamports, so that the amount and the price of a built
\* instruction are between 1 and 2^63 - 1.
C30_MaximaEnforced ==
    /\ ( /\ call.op \in {"MintEnergyTokens", "ListTokensForSale",
                         "MintConsumptionTokens"}
         /\ U64Greater(call.args.amount, MaxEnergyAmount) ) =>
           /\ result.err \in ValidationErrors
           /\ result.instruction = NoInstruction
    /\ ( /\ call.op = "ListTokensForSale"
         /\ U64Greater(call.args.priceLamports, MaxPriceLamports) ) =>
           /\ result.err \in ValidationErrors
           /\ result.instruction = NoInstruction

CrossmintOps == {"MintEnergyTokensForCrossmint", "CreateTransactionForCrossmint"}

\* C23: MintEnergyTokensForCrossmint and CreateTransactionForCrossmint make
\* no transport call, and what they return depends only on their
\* arguments: it is the same whatever the transport would give back.
C23_NoTransportCall ==
    /\ call.op \in CrossmintOps => rpcCalls = NoCalls
    /\ call.op = "MintEnergyTokensForCrossmint" =>
           \A reply \in BlockhashReplies :
               MintEnergyTokensForCrossmint(Client,
                   [Grid |-> call.args.grid, Producer |-> call.args.producer,
                    Amount |-> call.args.amount,
                    EnergyType |-> call.args.energyType,
                    GridAuthority |-> call.args.gridAuthority],
                   call.args.payer, reply).returned = rendered

\* C24: builder calls share no mutable state: the opcode table holds its
\* eight initial values after any sequence of builder calls and payload
\* writes, and the payload of an instruction a caller kept holds the bytes
\* it was returned with.
C24_NoSharedMutableState ==
    /\ discriminators = InitialDiscriminators
    /\ kept.op # "none" => PayloadNow(kept.op, kept.data) = kept.data

====
